---- MODULE Spec2Model ----
(***************************************************************************)
(* Model of the parsing and reconciliation core of the racing dashboard:   *)
(*   src/models/race_models.py      Runner / Race field validators         *)
(*   src/services/race_data.py      process_meeting_response               *)
(*   src/services/odds_processing.py process_odds_response,                *)
(*                                  merge_races_with_odds,                 *)
(*                                  parse_ctb988_response                  *)
(*   src/app.py                     display_race_columns, main             *)
(*   src/main.py                    legacy feed parsers and joins          *)
(*                                                                         *)
(* Python values are records [k, n, e, s]: k is the type tag, (n, e) a     *)
(* number n * 10^-e, and s the characters of a string.  Strings are        *)
(* sequences of one-character strings; "SUP2" stands for the single        *)
(* character U+00B2 (superscript two), a digit that is not a decimal.      *)
(***************************************************************************)
EXTENDS Integers, Sequences, FiniteSets, TLC

VARIABLES
    races,          \* app.main: selected_meeting.races
    odds_map,       \* the odds_data argument of the latest merge_races_with_odds
    race_no,        \* the race_no argument of the latest merge (0: none yet)
    pc,             \* position of the flow being run
    odds_response,  \* app.main: the odds response handed to process_odds_response
    results,        \* main.py process_hkjc_response: the feed text
    all_odds,       \* main.py process_hkjc_response: its outcome
    ctb_response,   \* the discount response handed to parse_ctb988_response
    ctb_data,       \* odds_processing.get_ctb_data: what the parser gave back
    bet_response,   \* main.py main: what the legacy parser gave back (bet mode)
    lay_response,   \* main.py main: what the legacy parser gave back (eat mode)
    meeting_response, \* the response handed to process_meeting_response
    meeting,        \* process_meeting_response: its outcome
    tab_race,       \* app.py display_race_columns: the race argument
    df_ctb,         \* app.py display_race_columns: the discount rows
    table_rows,     \* app.py display_race_columns: the rows of the table
    df_racecard,    \* main.py main: the racecard rows
    df_race_odds,   \* main.py main: the odds rows
    df_ctb_bet,     \* main.py main: the bet-mode discount rows
    df_ctb_lay,     \* main.py main: the eat-mode discount rows
    df_bet,         \* main.py main: the joined table
    total_ran_race, \* main.py get_all_racecard_today: its argument
    total_race,     \* main.py get_all_racecard_today: its argument
    racecards,      \* main.py get_all_racecard_today: the list being built
    card_no,        \* main.py get_all_racecard_today: the loop variable i
    retries,        \* main.py get_all_racecard_today: the counter _
    attempts,       \* calls of get_racecard_today made for race i so far
    poll_count,     \* main.py get_meeting_today: the counter _
    poll_response,  \* main.py get_meeting_today: the latest response
    meeting_today   \* main.py get_meeting_today: its outcome

vars ==
    <<races, odds_map, race_no, pc, odds_response, results, all_odds,
      ctb_response, ctb_data, bet_response, lay_response, meeting_response,
      meeting,
      tab_race, df_ctb, table_rows, df_racecard, df_race_odds, df_ctb_bet,
      df_ctb_lay, df_bet, total_ran_race, total_race, racecards, card_no,
      retries, attempts, poll_count, poll_response, meeting_today>>

\* the variables of each flow that the other flows leave alone
mergeOnly == <<races, race_no>>

oddsOnly == <<odds_response>>

hkjcVars == <<results, all_odds>>

ctbVars == <<ctb_response, ctb_data, bet_response, lay_response>>

meetingVars == <<meeting_response, meeting>>

displayVars ==
    <<tab_race, df_ctb, table_rows, df_racecard, df_race_odds, df_ctb_bet,
      df_ctb_lay, df_bet>>

racecardVars == <<total_ran_race, total_race, racecards, card_no, retries, attempts>>

pollVars == <<poll_count, poll_response, meeting_today>>

(***************************************************************************)
(* Python values                                                           *)
(***************************************************************************)
None == [k |-> "none", n |-> 0, e |-> 0, s |-> <<>>]

PyInt(i) == [k |-> "int", n |-> i, e |-> 0, s |-> <<>>]

RECURSIVE Normalise(_, _)
Normalise(m, e) ==
    IF e > 0 /\ m % 10 = 0 THEN Normalise(m \div 10, e - 1) ELSE <<m, e>>

\* the float m * 10^-e, in lowest terms so that equal floats are equal records
PyFloat(m, e) ==
    LET ne == Normalise(m, e)
    IN  [k |-> "float", n |-> ne[1], e |-> ne[2], s |-> <<>>]

PyStr(cs) == [k |-> "str", n |-> 0, e |-> 0, s |-> cs]

Raise(exc) == [k |-> "raise", n |-> 0, e |-> 0, s |-> <<exc>>]

IsRaise(v) == v.k = "raise"

SCR == <<"S", "C", "R">>

DecimalDigits == {"0", "1", "2", "3", "4", "5", "6", "7", "8", "9"}

DigitVal(c) ==
    CASE c = "0" -> 0 [] c = "1" -> 1 [] c = "2" -> 2 [] c = "3" -> 3
      [] c = "4" -> 4 [] c = "5" -> 5 [] c = "6" -> 6 [] c = "7" -> 7
      [] c = "8" -> 8 [] c = "9" -> 9

\* str.isdigit(): non-empty and every character has the Unicode Digit
\* property; superscript two has it although it is no decimal digit
IsDigitChar(c) == c \in DecimalDigits \/ c = "SUP2"

str_isdigit(cs) == Len(cs) > 0 /\ \A i \in 1..Len(cs) : IsDigitChar(cs[i])

RECURSIVE DigitsValue(_)
DigitsValue(cs) ==
    IF cs = <<>> THEN 0
    ELSE 10 * DigitsValue(SubSeq(cs, 1, Len(cs) - 1)) + DigitVal(cs[Len(cs)])

AllDecimal(cs) == \A i \in 1..Len(cs) : cs[i] \in DecimalDigits

DotPositions(cs) == {i \in 1..Len(cs) : cs[i] = "."}

RemoveAt(cs, i) == SubSeq(cs, 1, i - 1) \o SubSeq(cs, i + 1, Len(cs))

\* float(text) for text over digits, ".", letters and "SUP2": decimal digits
\* with at most one point and at least one digit, anything else ValueError
float_of_str(cs) ==
    LET dots == DotPositions(cs)
    IN  IF Cardinality(dots) > 1 THEN Raise("ValueError")
        ELSE LET ds == IF dots = {} THEN cs
                       ELSE RemoveAt(cs, CHOOSE i \in dots : TRUE)
                 fr == IF dots = {} THEN 0
                       ELSE Len(cs) - (CHOOSE i \in dots : TRUE)
             IN  IF ds = <<>> \/ ~AllDecimal(ds) THEN Raise("ValueError")
                 ELSE PyFloat(DigitsValue(ds), fr)

\* int(text): decimal digits only, anything else ValueError
int_of_str(cs) ==
    IF cs = <<>> \/ ~AllDecimal(cs) THEN Raise("ValueError")
    ELSE PyInt(DigitsValue(cs))

RECURSIVE Pow10(_)
Pow10(e) == IF e = 0 THEN 1 ELSE 10 * Pow10(e - 1)

\* float(value)
py_float(v) ==
    CASE v.k = "float" -> v
      [] v.k = "int" -> PyFloat(v.n, 0)
      [] v.k = "str" -> float_of_str(v.s)
      [] OTHER -> Raise("TypeError")

\* int(value): a float is truncated
py_int(v) ==
    CASE v.k = "int" -> v
      [] v.k = "float" -> PyInt(v.n \div Pow10(v.e))
      [] v.k = "str" -> int_of_str(v.s)
      [] OTHER -> Raise("TypeError")

\* value in ("", "SCR", None)
IsBlankOrScratch(v) ==
    v = None \/ (v.k = "str" /\ (v.s = <<>> \/ v.s = SCR))

(***************************************************************************)
(* models/race_models.py: Runner                                           *)
(***************************************************************************)
validate_win_odds(value) ==
    IF IsBlankOrScratch(value) THEN None
    ELSE LET f == py_float(value)
         IN  IF f = Raise("ValueError") THEN None ELSE f

validate_int_field(value) ==
    IF IsBlankOrScratch(value) THEN None
    ELSE LET i == py_int(value)
         IN  IF i = Raise("ValueError") THEN None ELSE i

\* a dict lookup d.get(key, None)
DictGet(d, key) == IF key \in DOMAIN d THEN d[key] ELSE None

(***************************************************************************)
(* services/odds_processing.py: merge_races_with_odds                      *)
(***************************************************************************)
\* runner.no in odds_data (the keys of odds_data are ints)
InOddsData(no, odds_data) == no.k = "int" /\ no.n \in DOMAIN odds_data

\* MergeRunner with the membership test lost: a runner without an entry is
\* assigned from an empty entry
MergeRunnerAlwaysAssigns(runner, odds_data) ==
    LET entry == IF InOddsData(runner.no, odds_data)
                 THEN odds_data[runner.no.n] ELSE [x \in {} |-> None]
    IN  [runner EXCEPT
            !.winOdds = validate_win_odds(DictGet(entry, "WIN")),
            !.placeOdds = validate_win_odds(DictGet(entry, "PLA"))]

\* MergeRunner with .get(key, None) replaced by a lookup that keeps the
\* field when the entry lacks the key
MergeRunnerKeepsMissing(runner, odds_data) ==
    IF InOddsData(runner.no, odds_data)
    THEN LET entry == odds_data[runner.no.n]
         IN  [runner EXCEPT
                !.winOdds = IF "WIN" \in DOMAIN entry
                            THEN validate_win_odds(entry["WIN"]) ELSE @,
                !.placeOdds = IF "PLA" \in DOMAIN entry
                              THEN validate_win_odds(entry["PLA"]) ELSE @]
    ELSE runner

\* the body of the loop over race.runners; the assignments run the field
\* validator (Config.validate_assignment)
MergeRunner(runner, odds_data) ==
    IF InOddsData(runner.no, odds_data)
    THEN [runner EXCEPT
            !.winOdds = validate_win_odds(DictGet(odds_data[runner.no.n], "WIN")),
            !.placeOdds = validate_win_odds(DictGet(odds_data[runner.no.n], "PLA"))]
    ELSE runner

\* MergeRace that also gives a key of odds_data without a runner a runner
MergeRaceAddsRunners(race, odds_data) ==
    LET spare == {k \in DOMAIN odds_data :
                     \A j \in DOMAIN race.runners : race.runners[j].no # PyInt(k)}
    IN  [race EXCEPT !.runners =
            [j \in DOMAIN race.runners |-> MergeRunner(race.runners[j], odds_data)]
            \o (IF spare = {} THEN <<>>
                ELSE <<[id |-> "new", no |-> PyInt(CHOOSE k \in spare : TRUE),
                        status |-> "Declared", winOdds |-> None,
                        placeOdds |-> None]>>)]

\* lines 64-67: the loop over the runners of the race
MergeRace(race, odds_data) ==
    [race EXCEPT !.runners =
        [j \in DOMAIN race.runners |-> MergeRunner(race.runners[j], odds_data)]]

\* merge_races_with_odds with the race test lost: every race is merged
merge_races_with_odds_every_race(rs, odds_data, target) ==
    [i \in DOMAIN rs |-> MergeRace(rs[i], odds_data)]

merge_races_with_odds(rs, odds_data, target) ==
    [i \in DOMAIN rs |->
        IF rs[i].no = target THEN MergeRace(rs[i], odds_data) ELSE rs[i]]

(***************************************************************************)
(* services/odds_processing.py: process_odds_response                      *)
(*                                                                         *)
(* A response is [hasData, raceMeetings]; raceMeetings is a sequence of    *)
(* meetings, a meeting the sequence of its pmPools, a pool                 *)
(* [oddsType, oddsNodes] and a node [combString, oddsValue].               *)
(***************************************************************************)
EmptyDict == [x \in {} |-> None]

\* a response that is empty or has no "data" key
NoResponse == [hasData |-> FALSE, raceMeetings |-> <<>>]

DictSet(d, key, value) ==
    [x \in DOMAIN d \cup {key} |-> IF x = key THEN value ELSE d[x]]

\* the (oddsType, node) pairs in the order the three nested loops visit them
RECURSIVE PoolNodes(_, _)
PoolNodes(odds_type, nodes) ==
    IF nodes = <<>> THEN <<>>
    ELSE <<[oddsType |-> odds_type, node |-> Head(nodes)]>>
            \o PoolNodes(odds_type, Tail(nodes))

RECURSIVE MeetingNodes(_)
MeetingNodes(pools) ==
    IF pools = <<>> THEN <<>>
    ELSE PoolNodes(Head(pools).oddsType, Head(pools).oddsNodes)
            \o MeetingNodes(Tail(pools))

RECURSIVE ResponseNodes(_)
ResponseNodes(meetings) ==
    IF meetings = <<>> THEN <<>>
    ELSE MeetingNodes(Head(meetings)) \o ResponseNodes(Tail(meetings))

\* the body of the innermost loop, lines 40-53, on the map built so far
OddsNodeStep(acc, odds_type, node) ==
    LET runner_num == int_of_str(node.combString)
    IN  IF IsRaise(runner_num) THEN [raised |-> TRUE, map |-> acc.map]
        ELSE LET key == runner_num.n
                 m0 == IF key \in DOMAIN acc.map THEN acc.map
                       ELSE DictSet(acc.map, key, EmptyDict)
             IN  [raised |-> FALSE,
                  map |-> CASE odds_type = "WIN" ->
                                 DictSet(m0, key, DictSet(m0[key], "WIN", node.oddsValue))
                            [] odds_type = "PLA" ->
                                 DictSet(m0, key, DictSet(m0[key], "PLA", node.oddsValue))
                            [] OTHER -> m0]

RECURSIVE OddsNodesFold(_, _)
OddsNodesFold(acc, pairs) ==
    IF pairs = <<>> \/ acc.raised THEN acc
    ELSE OddsNodesFold(OddsNodeStep(acc, Head(pairs).oddsType, Head(pairs).node),
                       Tail(pairs))

\* [raised, map]: raised when int(comb_string) raised ValueError, else the
\* returned odds_map
process_odds_response(response) ==
    IF ~response.hasData THEN [raised |-> FALSE, map |-> EmptyDict]
    ELSE OddsNodesFold([raised |-> FALSE, map |-> EmptyDict],
                       ResponseNodes(response.raceMeetings))

(***************************************************************************)
(* A flow that is not being run keeps its variables at these values.       *)
(***************************************************************************)
MergeIdle == races = <<>> /\ race_no = 0

OddsIdle == odds_response = NoResponse

HkjcIdle == results = <<>> /\ all_odds = [raised |-> "", records |-> <<>>]

NoText ==
    [length |-> 0, cookieKey |-> <<>>, keyElsewhere |-> FALSE,
     pendingData |-> <<>>]

\* no parser has been called yet
NotFetched ==
    [raised |-> "", returned |-> "nothing", text |-> "", records |-> <<>>]

CtbIdle ==
    /\ ctb_response = NoText /\ ctb_data = NotFetched
    /\ bet_response = NotFetched /\ lay_response = NotFetched

NoMeeting ==
    [raised |-> "", returned |-> "nothing", races |-> <<>>,
     date |-> [k |-> "none", n |-> 0, e |-> 0, s |-> <<>>],
     totalNumberOfRace |-> 0]

MeetingIdle == meeting_response = NoResponse /\ meeting = NoMeeting

NoRace == [no |-> 0, postTime |-> None, runners |-> <<>>]

\* no table has been built yet
NoTable == [raised |-> "", done |-> FALSE, rows |-> <<>>]

\* no response yet
NoPoll == [text |-> <<>>, mtg_date |-> "missing"]

\* get_meeting_today has not ended
Polling == [raised |-> "", returned |-> "nothing"]

PollIdle == poll_count = 0 /\ poll_response = NoPoll /\ meeting_today = Polling

RacecardIdle ==
    /\ total_ran_race = 0 /\ total_race = 0 /\ racecards = <<>>
    /\ card_no = 0 /\ retries = 0 /\ attempts = 0

DisplayIdle ==
    /\ tab_race = NoRace /\ df_ctb = <<>> /\ table_rows = NoTable
    /\ df_racecard = <<>> /\ df_race_odds = <<>>
    /\ df_ctb_bet = <<>> /\ df_ctb_lay = <<>> /\ df_bet = NoTable

(***************************************************************************)
(* The merge flow: a racecard as process_meeting_response leaves it (no    *)
(* odds yet), then any sequence of merge_races_with_odds calls.            *)
(***************************************************************************)
MaxRunnerNo == 2

RunnerNos == 1..MaxRunnerNo

\* Runner.no: an assigned number, or None for a runner without one
RunnerNoValues == {None} \cup {PyInt(i) : i \in RunnerNos}

NewRunner(id, no) ==
    [id |-> id, no |-> no,
     status |-> IF no = None THEN "Standby" ELSE "Declared",
     winOdds |-> None, placeOdds |-> None]

\* two races, the first with two runners and the second with one; the
\* second race may repeat the first one's number
Racecards ==
    {<<[no |-> 1, runners |-> <<NewRunner("a", a), NewRunner("b", b)>>],
       [no |-> n, runners |-> <<NewRunner("c", c)>>]>> :
        a \in RunnerNoValues, b \in RunnerNoValues, c \in RunnerNoValues,
        n \in {1, 2}}

RaceNoArgs == {1, 2}

OddsFloat == PyFloat(32, 1)

\* the dicts {}, {WIN}, {PLA}, {WIN, PLA}
OddsEntries == UNION {[ks -> {OddsFloat}] : ks \in SUBSET {"WIN", "PLA"}}

OddsMaps == UNION {[ks -> OddsEntries] : ks \in SUBSET RunnerNos}

MergeInit ==
    /\ races \in Racecards
    /\ odds_map = EmptyDict
    /\ race_no = 0
    /\ pc = "loop"
    /\ OddsIdle
    /\ HkjcIdle
    /\ CtbIdle /\ MeetingIdle /\ DisplayIdle /\ RacecardIdle /\ PollIdle

\* app.main lines 191-197: the odds of one race are fetched and processed;
\* the odds map and the target race number are any the caller can pass
FetchOdds(odds_data, target) ==
    /\ pc = "loop"
    /\ odds_map' = odds_data
    /\ race_no' = target
    /\ pc' = "fetched"
    /\ UNCHANGED <<races, oddsOnly, hkjcVars, ctbVars, meetingVars, displayVars, racecardVars, pollVars>>

\* app.main line 198: merge_races_with_odds(races, odds_map, race_no)
Merge ==
    /\ pc = "fetched"
    /\ races' = merge_races_with_odds(races, odds_map, race_no)
    /\ pc' = "merged"
    /\ UNCHANGED <<odds_map, race_no, oddsOnly, hkjcVars, ctbVars, meetingVars, displayVars, racecardVars, pollVars>>

\* the loop moves on to its next iteration
NextRace ==
    /\ pc = "merged"
    /\ odds_map' = EmptyDict
    /\ race_no' = 0
    /\ pc' = "loop"
    /\ UNCHANGED <<races, oddsOnly, hkjcVars, ctbVars, meetingVars, displayVars, racecardVars, pollVars>>

MergeNext ==
    \/ \E odds_data \in OddsMaps, target \in RaceNoArgs : FetchOdds(odds_data, target)
    \/ Merge
    \/ NextRace

Spec == MergeInit /\ [][MergeNext]_vars

(***************************************************************************)
(* Properties of the merge flow                                            *)
(***************************************************************************)
RaceIndexes == DOMAIN races

RunnerIndexes(i) == DOMAIN races[i].runners

\* C1: a race changes only in a merge step whose target is that race's
\* number: a merge leaves every runner of every race with another number
\* untouched, whatever keys the odds map holds, and so does every other step.
C1_OnlyTargetRaceChanges ==
    [][\A i \in RaceIndexes :
          races'[i] # races[i] => pc = "fetched" /\ races[i].no = race_no]_vars

\* a merge has changed the target race while a runner of a race with another
\* number, whose number is a key of the odds map with odds in it, kept None
C1_Witness ==
    /\ pc = "merged"
    /\ \E i \in RaceIndexes, k \in RaceIndexes :
          /\ races[i].no # race_no
          /\ races[k].no = race_no
          /\ \E j \in RunnerIndexes(i), l \in RunnerIndexes(k) :
                /\ InOddsData(races[i].runners[j].no, odds_map)
                /\ races[i].runners[j].no = races[k].runners[l].no
                /\ "WIN" \in DOMAIN odds_map[races[i].runners[j].no.n]
                /\ races[i].runners[j].winOdds = None
                /\ races[k].runners[l].winOdds = OddsFloat

\* C10: a merge leaves winOdds and placeOdds of every runner of the target
\* race whose number is not a key of the odds map (a runner without a number
\* included) as they were.
C10_UnkeyedRunnersKeepOdds ==
    [][pc = "fetched" =>
          \A i \in RaceIndexes :
             races[i].no = race_no =>
                \A j \in RunnerIndexes(i) :
                   ~InOddsData(races[i].runners[j].no, odds_map) =>
                      /\ races'[i].runners[j].winOdds = races[i].runners[j].winOdds
                      /\ races'[i].runners[j].placeOdds = races[i].runners[j].placeOdds]_vars

\* after a merge with a non-empty odds map, a numbered runner of the target
\* race that is not a key still shows the odds an earlier merge gave it
C10_Witness ==
    /\ pc = "merged"
    /\ odds_map # EmptyDict
    /\ \E i \in RaceIndexes :
          /\ races[i].no = race_no
          /\ \E j \in RunnerIndexes(i) :
                /\ races[i].runners[j].no # None
                /\ ~InOddsData(races[i].runners[j].no, odds_map)
                /\ races[i].runners[j].winOdds = OddsFloat

\* C23: a merge gives every runner of the target race whose number is a key
\* of the odds map the WIN value of its entry as winOdds and the PLA value
\* as placeOdds, None for a value the entry lacks, whatever the runner held
\* before; and merging the same map into the result again changes nothing.
C23_KeyedRunnersTakeEntry ==
    [][pc = "fetched" =>
          /\ \A i \in RaceIndexes :
                races[i].no = race_no =>
                   \A j \in RunnerIndexes(i) :
                      InOddsData(races[i].runners[j].no, odds_map) =>
                         LET entry == odds_map[races[i].runners[j].no.n]
                         IN  /\ races'[i].runners[j].winOdds = DictGet(entry, "WIN")
                             /\ races'[i].runners[j].placeOdds = DictGet(entry, "PLA")
          /\ merge_races_with_odds(races', odds_map, race_no) = races']_vars

\* a merge is about to run on a runner of the target race that holds win
\* odds from an earlier merge and whose entry in the new map has no WIN value
C23_Witness ==
    /\ pc = "fetched"
    /\ \E i \in RaceIndexes :
          /\ races[i].no = race_no
          /\ \E j \in RunnerIndexes(i) :
                /\ InOddsData(races[i].runners[j].no, odds_map)
                /\ "WIN" \notin DOMAIN odds_map[races[i].runners[j].no.n]
                /\ "PLA" \in DOMAIN odds_map[races[i].runners[j].no.n]
                /\ races[i].runners[j].winOdds = OddsFloat

Identity(runner) == <<runner.id, runner.no, runner.status>>

\* C11: no step, a merge with any odds map and target included, changes the
\* number of races, a race's number, the number or order of its runners, or
\* the id, number or status of a runner.
C11_RunnersPreserved ==
    [][/\ DOMAIN races' = DOMAIN races
       /\ \A i \in RaceIndexes :
             /\ races'[i].no = races[i].no
             /\ DOMAIN races'[i].runners = DOMAIN races[i].runners
             /\ \A j \in RunnerIndexes(i) :
                   Identity(races'[i].runners[j]) = Identity(races[i].runners[j])]_vars

\* a merge has given odds to a runner of the target race while the odds map
\* holds a key that is the number of no runner of that race
C11_Witness ==
    /\ pc = "merged"
    /\ \E i \in RaceIndexes :
          /\ races[i].no = race_no
          /\ \E j \in RunnerIndexes(i) :
                /\ InOddsData(races[i].runners[j].no, odds_map)
                /\ races[i].runners[j].winOdds = OddsFloat
          /\ \E k \in DOMAIN odds_map :
                \A j \in RunnerIndexes(i) : races[i].runners[j].no # PyInt(k)

(***************************************************************************)
(* The odds flow: an odds response is put together pool by pool and then   *)
(* handed to process_odds_response.                                        *)
(***************************************************************************)
MaxPools == 2

MaxNodes == 1

\* WIN and PLA, and QIN standing for every other odds type
OddsTypes == {"WIN", "PLA", "QIN"}

\* single runner numbers and a two-runner combination code
CombStrings == {<<"1">>, <<"2">>, <<"1", ",", "2">>}

OddsNodes == [combString : CombStrings, oddsValue : {OddsFloat}]

NodeLists == UNION {[1..n -> OddsNodes] : n \in 0..MaxNodes}

Pools == [oddsType : OddsTypes, oddsNodes : NodeLists]

OddsInit ==
    /\ odds_response \in {NoResponse, [hasData |-> TRUE, raceMeetings |-> << <<>> >>]}
    /\ odds_map = EmptyDict
    /\ pc = "response"
    /\ MergeIdle
    /\ HkjcIdle
    /\ CtbIdle /\ MeetingIdle /\ DisplayIdle /\ RacecardIdle /\ PollIdle

\* the upstream puts one more pool into the meeting's pmPools
AddPool(pool) ==
    /\ pc = "response"
    /\ odds_response.hasData
    /\ Len(odds_response.raceMeetings[1]) < MaxPools
    /\ odds_response' = [odds_response EXCEPT !.raceMeetings[1] = Append(@, pool)]
    /\ UNCHANGED <<odds_map, pc, mergeOnly, hkjcVars, ctbVars, meetingVars, displayVars, racecardVars, pollVars>>

\* app.main line 197: odds_map = process_odds_response(odds_data)
ProcessOdds ==
    /\ pc = "response"
    /\ LET r == process_odds_response(odds_response)
       IN  /\ pc' = IF r.raised THEN "raised" ELSE "processed"
           /\ odds_map' = IF r.raised THEN odds_map ELSE r.map
    /\ UNCHANGED <<odds_response, mergeOnly, hkjcVars, ctbVars, meetingVars, displayVars, racecardVars, pollVars>>

OddsNext ==
    \/ \E pool \in Pools : AddPool(pool)
    \/ ProcessOdds

SpecOdds == OddsInit /\ [][OddsNext]_vars

\* the response without its pools of other odds types
RECURSIVE WinPlaPools(_)
WinPlaPools(pools) ==
    IF pools = <<>> THEN <<>>
    ELSE (IF Head(pools).oddsType \in {"WIN", "PLA"} THEN <<Head(pools)>> ELSE <<>>)
            \o WinPlaPools(Tail(pools))

WinPlaOnly(response) ==
    [response EXCEPT !.raceMeetings =
        [i \in DOMAIN response.raceMeetings |-> WinPlaPools(response.raceMeetings[i])]]

\* C8: process_odds_response gives, for a response, the outcome it gives for
\* the same response without the pools of other odds types: the same map,
\* and an error only if the WIN and PLA pools alone raise one.
C8_OtherPoolsIgnored ==
    pc \in {"processed", "raised"} /\ odds_response.hasData =>
        LET r == process_odds_response(WinPlaOnly(odds_response))
        IN  /\ (pc = "raised") = r.raised
            /\ pc = "processed" => odds_map = r.map

(***************************************************************************)
(* main.py: process_hkjc_response                                          *)
(***************************************************************************)
IsSpace(c) == c \in {" ", "\n"}

\* str.strip()
RECURSIVE str_strip(_)
str_strip(cs) ==
    IF cs = <<>> THEN cs
    ELSE IF IsSpace(Head(cs)) THEN str_strip(Tail(cs))
    ELSE IF IsSpace(cs[Len(cs)]) THEN str_strip(SubSeq(cs, 1, Len(cs) - 1))
    ELSE cs

StartsWithAt(cs, p, sep) ==
    p + Len(sep) - 1 <= Len(cs) /\ SubSeq(cs, p, p + Len(sep) - 1) = sep

\* str.split(sep): the pieces between the occurrences of sep, left to right
RECURSIVE SplitFrom(_, _, _, _)
SplitFrom(cs, sep, p, start) ==
    IF p > Len(cs) THEN <<SubSeq(cs, start, Len(cs))>>
    ELSE IF StartsWithAt(cs, p, sep)
         THEN <<SubSeq(cs, start, p - 1)>>
                 \o SplitFrom(cs, sep, p + Len(sep), p + Len(sep))
         ELSE SplitFrom(cs, sep, p + 1, start)

str_split(cs, sep) == SplitFrom(cs, sep, 1, 1)

\* the letters that occur in the feeds of the model
Letters == {"S", "C", "R", "x"}

\* \d; superscript two is no decimal digit
IsReDigit(c) == c \in DecimalDigits

\* [\d\.\w]; \w takes letters, decimal digits, "_" and other alphanumerics
\* such as superscript two
IsReOddsChar(c) == c \in DecimalDigits \cup Letters \cup {"_", "SUP2", "."}

\* the end of the longest run of digits (of odds characters) from p on
RECURSIVE DigitRunEnd(_, _)
DigitRunEnd(cs, p) ==
    IF p <= Len(cs) /\ IsReDigit(cs[p]) THEN DigitRunEnd(cs, p + 1) ELSE p

RECURSIVE OddsRunEnd(_, _)
OddsRunEnd(cs, p) ==
    IF p <= Len(cs) /\ IsReOddsChar(cs[p]) THEN OddsRunEnd(cs, p + 1) ELSE p

\* HKJC_ODDS_PATTERN tried at position p: (\d+)=([\d\.\w]+)=(\d); both runs
\* are followed by "=", which neither class holds, so only the longest run
\* can match
MatchAt(cs, p) ==
    LET h == DigitRunEnd(cs, p)
        o == OddsRunEnd(cs, h + 1)
    IN  IF /\ h > p
           /\ h <= Len(cs) /\ cs[h] = "="
           /\ o > h + 1
           /\ o + 1 <= Len(cs) /\ cs[o] = "="
           /\ IsReDigit(cs[o + 1])
        THEN [matched |-> TRUE, horse |-> SubSeq(cs, p, h - 1),
              odds |-> SubSeq(cs, h + 1, o - 1), fav |-> cs[o + 1],
              end |-> o + 2]
        ELSE [matched |-> FALSE, horse |-> <<>>, odds |-> <<>>, fav |-> "",
              end |-> p]

\* re.finditer(HKJC_ODDS_PATTERN, text): the non-overlapping matches, each
\* the leftmost one after the end of the one before
RECURSIVE FinditerFrom(_, _)
FinditerFrom(cs, p) ==
    IF p > Len(cs) THEN <<>>
    ELSE LET m == MatchAt(cs, p)
         IN  IF m.matched
             THEN <<[horse |-> m.horse, odds |-> m.odds, fav |-> m.fav]>>
                     \o FinditerFrom(cs, m.end)
             ELSE FinditerFrom(cs, p + 1)

re_finditer(cs) == FinditerFrom(cs, 1)

\* text.replace(".", "", 1)
ReplaceFirstDot(cs) ==
    IF DotPositions(cs) = {} THEN cs
    ELSE RemoveAt(cs, CHOOSE i \in DotPositions(cs) :
                          \A j \in DotPositions(cs) : i <= j)

\* lines 322-323 and 325-326: float(text) if text.replace(".", "", 1).isdigit()
\* else None; float() may raise ValueError
OddsValue(text) ==
    IF str_isdigit(ReplaceFirstDot(text)) THEN float_of_str(text) ELSE None

\* the HKJCOdds record of lines 320-327
HKJCOdds(race_num, win_match, place_match) ==
    [race_num |-> race_num,
     num |-> int_of_str(win_match.horse).n,
     win |-> OddsValue(win_match.odds),
     win_fav |-> (win_match.fav = "1"),
     place |-> OddsValue(place_match.odds),
     place_fav |-> (place_match.fav = "1")]

\* the loop body without its assert: any two entries are paired
PairStepUnchecked(acc, race_num, win_match, place_match) ==
    IF win_match.odds = SCR THEN acc
    ELSE LET odds == HKJCOdds(race_num, win_match, place_match)
         IN  IF IsRaise(odds.win) \/ IsRaise(odds.place)
             THEN [acc EXCEPT !.raised = "ValueError"]
             ELSE [acc EXCEPT !.records = Append(@, odds)]

\* the body of the loop over the zipped matches, lines 309-329, on
\* acc = [raised, records]: raised names the exception that ended the call
PairStep(acc, race_num, win_match, place_match) ==
    IF win_match.horse # place_match.horse
    THEN [acc EXCEPT !.raised = "AssertionError"]
    ELSE IF win_match.odds = SCR THEN acc
    ELSE LET odds == HKJCOdds(race_num, win_match, place_match)
         IN  IF IsRaise(odds.win) \/ IsRaise(odds.place)
             THEN [acc EXCEPT !.raised = "ValueError"]
             ELSE [acc EXCEPT !.records = Append(@, odds)]

\* zip(...): in lock-step until the shorter block runs out
RECURSIVE PairsFold(_, _, _, _)
PairsFold(acc, race_num, win_matches, place_matches) ==
    IF acc.raised # "" \/ win_matches = <<>> \/ place_matches = <<>> THEN acc
    ELSE PairsFold(PairStep(acc, race_num, Head(win_matches), Head(place_matches)),
                   race_num, Tail(win_matches), Tail(place_matches))

\* the body of the loop over the races, lines 302-329; the unpacking of
\* data.split("#") raises ValueError unless there are exactly two blocks
SegmentStep(acc, race_num, data) ==
    LET blocks == str_split(data, <<"#">>)
    IN  IF Len(blocks) # 2 THEN [acc EXCEPT !.raised = "ValueError"]
        ELSE PairsFold(acc, race_num, re_finditer(blocks[1]), re_finditer(blocks[2]))

\* SegmentsFold with the count of enumerate lost: every segment is race 1
RECURSIVE SegmentsFoldUncounted(_, _, _)
SegmentsFoldUncounted(acc, race_num, segments) ==
    IF acc.raised # "" \/ segments = <<>> THEN acc
    ELSE SegmentsFoldUncounted(SegmentStep(acc, 1, Head(segments)),
                               1, Tail(segments))

RECURSIVE SegmentsFold(_, _, _)
SegmentsFold(acc, race_num, segments) ==
    IF acc.raised # "" \/ segments = <<>> THEN acc
    ELSE SegmentsFold(SegmentStep(acc, race_num, Head(segments)),
                      race_num + 1, Tail(segments))

RaceSeparator == <<"@", "@", "@">>

\* the race segments: what follows each separator of the stripped text
RaceSegments(text) == Tail(str_split(str_strip(text), RaceSeparator))

\* [raised, records]: the exception raised ("" for none) and the list
\* all_odds, which is returned when nothing was raised
process_hkjc_response(text) ==
    SegmentsFold([raised |-> "", records |-> <<>>], 1, RaceSegments(text))

(***************************************************************************)
(* The legacy odds flow: get_race_odds_today hands the text of the odds    *)
(* feed to process_hkjc_response.  The feeds of the model hold a first     *)
(* race with up to MaxEntries entries in each block, and at most one       *)
(* more race after it.                                                     *)
(***************************************************************************)
MaxEntries == 2

\* runner=value=flag entries of a WIN block: 1=3.2=0, 2=SCR=0, 2=7=1, 1=x=1,
\* 1=(superscript two)=0
WinEntries ==
    {<<"1", "=", "3", ".", "2", "=", "0">>,
     <<"2", "=", "S", "C", "R", "=", "0">>,
     <<"2", "=", "7", "=", "1">>,
     <<"1", "=", "x", "=", "1">>,
     <<"1", "=", "SUP2", "=", "0">>}

\* entries of a PLACE block: 1=1.5=1, 2=1.1=0, 2=SCR=0, 1=.=0
PlaceEntries ==
    {<<"1", "=", "1", ".", "5", "=", "1">>,
     <<"2", "=", "1", ".", "1", "=", "0">>,
     <<"2", "=", "S", "C", "R", "=", "0">>,
     <<"1", "=", ".", "=", "0">>}

\* a later race of the feed: 1=3.2=0#1=1.5=1
LaterRaces ==
    {<<"1", "=", "3", ".", "2", "=", "0", "#", "1", "=", "1", ".", "5", "=", "1">>}

RECURSIVE JoinEntries(_)
JoinEntries(entries) ==
    IF entries = <<>> THEN <<>>
    ELSE IF Len(entries) = 1 THEN Head(entries)
    ELSE Head(entries) \o <<";">> \o JoinEntries(Tail(entries))

EntryLists(entries) == UNION {[1..n -> entries] : n \in 0..MaxEntries}

\* the text of one race: the WIN block, "#", the PLACE block
RaceText(win_entries, place_entries) ==
    JoinEntries(win_entries) \o <<"#">> \o JoinEntries(place_entries)

HkjcFeeds ==
    {RaceSeparator \o RaceText(w, p) \o later :
        w \in EntryLists(WinEntries), p \in EntryLists(PlaceEntries),
        later \in {<<>>} \cup {RaceSeparator \o l : l \in LaterRaces}}

HkjcInit ==
    /\ results \in HkjcFeeds
    /\ all_odds = [raised |-> "", records |-> <<>>]
    /\ pc = "feed"
    /\ odds_map = EmptyDict
    /\ MergeIdle
    /\ OddsIdle
    /\ CtbIdle /\ MeetingIdle /\ DisplayIdle /\ RacecardIdle /\ PollIdle

\* get_race_odds_today line 339: hkjc_odds = process_hkjc_response(response.text)
ParseFeed ==
    /\ pc = "feed"
    /\ all_odds' = process_hkjc_response(results)
    /\ pc' = "parsed"
    /\ UNCHANGED <<results, odds_map, mergeOnly, oddsOnly, ctbVars, meetingVars,
                   displayVars, racecardVars, pollVars>>

HkjcNext == ParseFeed

SpecHkjc == HkjcInit /\ [][HkjcNext]_vars

(***************************************************************************)
(* Properties of the legacy odds flow.  The entries of a race are the      *)
(* pattern matches of its two blocks; position i of race k pairs the i-th  *)
(* match of the WIN block with the i-th match of the PLACE block.          *)
(***************************************************************************)
FeedRaces == RaceSegments(results)

WinMatches(k) == re_finditer(str_split(FeedRaces[k], <<"#">>)[1])

PlaceMatches(k) == re_finditer(str_split(FeedRaces[k], <<"#">>)[2])

Min(a, b) == IF a <= b THEN a ELSE b

Positions(k) == 1..Min(Len(WinMatches(k)), Len(PlaceMatches(k)))

RECURSIVE PositionsBefore(_, _)
PositionsBefore(k, i) ==
    IF k = 1 THEN i - 1
    ELSE PositionsBefore(k - 1, Cardinality(Positions(k - 1)) + 1) + i - 1

Mismatch(k, i) == WinMatches(k)[i].horse # PlaceMatches(k)[i].horse

NoMismatch == \A k \in DOMAIN FeedRaces : \A i \in Positions(k) : ~Mismatch(k, i)

RecordsOfRace(k) == SelectSeq(all_odds.records, LAMBDA r : r.race_num = k)

\* C4: when the runner numbers of the WIN entry and the PLACE entry at some
\* position differ, the parse ends in an error, and every record it had
\* produced by then comes from an earlier position.
C4_MismatchRaises ==
    pc = "parsed" =>
        \A k \in DOMAIN FeedRaces : \A i \in Positions(k) :
            Mismatch(k, i) =>
                /\ all_odds.raised # ""
                /\ Len(all_odds.records) <= PositionsBefore(k, i)

\* the parse ended in the assertion error at a scratched position, after
\* the position before it had given a record
C4_Witness ==
    /\ pc = "parsed"
    /\ all_odds.raised = "AssertionError"
    /\ Len(all_odds.records) = 1
    /\ Mismatch(1, 2)
    /\ WinMatches(1)[2].odds = SCR

\* C5: a parse that raises nothing returns, for every race, one record per
\* position whose WIN value and PLACE value are both no scratch marker, and
\* none for the other positions.
C5_ScratchedRunnersSkipped ==
    pc = "parsed" /\ all_odds.raised = "" =>
        \A k \in DOMAIN FeedRaces :
            Len(RecordsOfRace(k)) =
                Cardinality({i \in Positions(k) :
                                /\ WinMatches(k)[i].odds # SCR
                                /\ PlaceMatches(k)[i].odds # SCR})

\* a text that is a non-negative decimal number: decimal digits with at most
\* one point and at least one digit
IsDecimalText(text) ==
    /\ \A i \in 1..Len(text) : text[i] \in DecimalDigits \cup {"."}
    /\ Cardinality(DotPositions(text)) <= 1
    /\ \E i \in 1..Len(text) : text[i] \in DecimalDigits

ExpectedOdds(text) == IF IsDecimalText(text) THEN float_of_str(text) ELSE None

\* C9: when the runner numbers agree at every position, the parse returns,
\* for every position whose WIN and PLACE values are both no scratch marker,
\* a record of that race and runner with win (place) the decimal number of
\* the WIN (PLACE) entry, or None when the text is no decimal number, and
\* with each favourite flag true exactly when the entry's flag digit is 1.
C9_RecordValues ==
    pc = "parsed" /\ NoMismatch =>
        \A k \in DOMAIN FeedRaces : \A i \in Positions(k) :
            LET w == WinMatches(k)[i]
                p == PlaceMatches(k)[i]
            IN  w.odds # SCR /\ p.odds # SCR =>
                    /\ all_odds.raised = ""
                    /\ \E j \in DOMAIN all_odds.records :
                          all_odds.records[j] =
                              [race_num |-> k,
                               num |-> int_of_str(w.horse).n,
                               win |-> ExpectedOdds(w.odds),
                               win_fav |-> (w.fav = "1"),
                               place |-> ExpectedOdds(p.odds),
                               place_fav |-> (p.fav = "1")]

(***************************************************************************)
(* services/odds_processing.py and main.py: parse_ctb988_response          *)
(*                                                                         *)
(* A response text is [length, cookieKey, keyElsewhere, pendingData]: the  *)
(* number of its characters, the value of the "cookieKey" field of its     *)
(* JSON body, whether a session key occurs in the rest of the text, and    *)
(* the rows of the tab-delimited "pendingData" table.                      *)
(***************************************************************************)
MinLength == 140

UpperLetters == {"A", "B", "C", "E", "H", "T"}

IsUpper(c) == c \in UpperLetters

RECURSIVE UpperRunEnd(_, _)
UpperRunEnd(cs, p) ==
    IF p <= Len(cs) /\ IsUpper(cs[p]) THEN UpperRunEnd(cs, p + 1) ELSE p

CharAt(cs, p) == IF p >= 1 /\ p <= Len(cs) THEN cs[p] ELSE ""

\* CTB_KEY_PATTERN tried at position p:
\* [A-Z]{3}_\d{2}-\d{2}-\d{4}_\d{0,3}[A-Z]{0,2}_\d+
KeyMatchAt(cs, p) ==
    LET d == DigitRunEnd(cs, p + 15)
        u == UpperRunEnd(cs, d)
    IN  IF /\ \A i \in p..(p + 2) : IsUpper(CharAt(cs, i))
           /\ CharAt(cs, p + 3) = "_"
           /\ \A i \in {p + 4, p + 5, p + 7, p + 8} \cup (p + 10)..(p + 13) :
                 IsReDigit(CharAt(cs, i))
           /\ CharAt(cs, p + 6) = "-" /\ CharAt(cs, p + 9) = "-"
           /\ CharAt(cs, p + 14) = "_"
           /\ d - (p + 15) <= 3
           /\ u - d <= 2
           /\ CharAt(cs, u) = "_"
           /\ IsReDigit(CharAt(cs, u + 1))
        THEN [matched |-> TRUE, mode |-> SubSeq(cs, p, p + 2),
              race_date |-> SubSeq(cs, p + 4, p + 13),
              location |-> SubSeq(cs, p + 15, u - 1)]
        ELSE [matched |-> FALSE, mode |-> <<>>, race_date |-> <<>>,
              location |-> <<>>]

\* CTB_KEY_PATTERN.search(text): the leftmost match
RECURSIVE KeySearchFrom(_, _)
KeySearchFrom(cs, p) ==
    IF p > Len(cs) THEN KeyMatchAt(<<>>, 1)
    ELSE IF KeyMatchAt(cs, p).matched THEN KeyMatchAt(cs, p)
    ELSE KeySearchFrom(cs, p + 1)

key_search(cs) == KeySearchFrom(cs, 1)

\* check_valid_ctb988_response, the same in both files
check_valid_ctb988_response(response_text) ==
    IF response_text.length < MinLength THEN FALSE
    ELSE key_search(response_text.cookieKey).matched \/ response_text.keyElsewhere

NaN == [k |-> "nan", n |-> 0, e |-> 0, s |-> <<>>]

\* Series.min(): NaN for an empty series
RECURSIVE SeriesMin(_)
SeriesMin(values) ==
    IF values = <<>> THEN NaN
    ELSE LET rest == SeriesMin(Tail(values))
         IN  IF rest = NaN \/ Head(values) <= rest.n THEN PyInt(Head(values))
             ELSE rest

RowKey(row) == <<row.race, row.horse>>

KeyLess(a, b) == a[1] < b[1] \/ (a[1] = b[1] /\ a[2] < b[2])

\* the group keys in the order groupby yields them: sorted
RECURSIVE SortedKeys(_)
SortedKeys(keys) ==
    IF keys = {} THEN <<>>
    ELSE LET least == CHOOSE a \in keys : \A b \in keys \ {a} : KeyLess(a, b)
         IN  <<least>> \o SortedKeys(keys \ {least})

Discounts(rows) == [i \in DOMAIN rows |-> rows[i].discount]

\* lines 110-111 with the filters lost: the minimum over all rows of a group
GroupDiscountsUnfiltered(group) ==
    [win_discount |-> SeriesMin(Discounts(group)),
     place_discount |-> SeriesMin(Discounts(group))]

\* lines 110-111 (main.py 462-463): the two minima of a group
GroupDiscounts(group) ==
    [win_discount |->
        SeriesMin(Discounts(SelectSeq(group, LAMBDA r : r.win_amount > 0))),
     place_discount |->
        SeriesMin(Discounts(SelectSeq(group, LAMBDA r : r.place_amount > 0)))]

\* the groups of df.groupby(["race", "horse"]), each with its key
Groups(rows) ==
    LET keys == SortedKeys({RowKey(rows[i]) : i \in DOMAIN rows})
    IN  [g \in DOMAIN keys |->
            [key |-> keys[g],
             rows |-> SelectSeq(rows, LAMBDA r : RowKey(r) = keys[g])]]

\* what a parser gives back: an exception, or a list of records, or a str
Raised(exc) ==
    [raised |-> exc, returned |-> "nothing", text |-> "", records |-> <<>>]

ReturnedList(records) ==
    [raised |-> "", returned |-> "list", text |-> "", records |-> records]

ReturnedStr(text) ==
    [raised |-> "", returned |-> "str", text |-> text, records |-> <<>>]

\* services/odds_processing.py parse_ctb988_response
parse_ctb988_response(response_text) ==
    IF ~check_valid_ctb988_response(response_text)
    THEN ReturnedList(<<>>)
    ELSE LET groups == Groups(response_text.pendingData)
         IN  [raised |-> "", returned |-> "list", text |-> "",
              records |->
                 [g \in DOMAIN groups |->
                     [race |-> groups[g].key[1], horse |-> groups[g].key[2],
                      win_discount |-> GroupDiscounts(groups[g].rows).win_discount,
                      place_discount |-> GroupDiscounts(groups[g].rows).place_discount]]]

Lower(c) ==
    CASE c = "A" -> "a" [] c = "B" -> "b" [] c = "C" -> "c" [] c = "E" -> "e"
      [] c = "H" -> "h" [] c = "T" -> "t" [] OTHER -> c

str_lower(cs) == [i \in DOMAIN cs |-> Lower(cs[i])]

\* main.py Mode(value): the enum member with that value, or ValueError
Mode(value) ==
    IF value \in {<<"b", "e", "t">>, <<"e", "a", "t">>} THEN PyStr(value)
    ELSE Raise("ValueError")

DaysInMonth(month, year) ==
    CASE month \in {4, 6, 9, 11} -> 30
      [] month = 2 ->
            IF year % 4 = 0 /\ (year % 100 # 0 \/ year % 400 = 0) THEN 29 ELSE 28
      [] OTHER -> 31

\* main.py parse_ctb988_datetime: strptime(datestring, "%d-%m-%Y") of the
\* ten characters dd-mm-yyyy that the key pattern captured
parse_ctb988_datetime(datestring) ==
    LET day == DigitsValue(SubSeq(datestring, 1, 2))
        month == DigitsValue(SubSeq(datestring, 4, 5))
        year == DigitsValue(SubSeq(datestring, 7, 10))
    IN  IF year >= 1 /\ month \in 1..12 /\ day \in 1..DaysInMonth(month, year)
        THEN [raised |-> "", year |-> SubSeq(datestring, 7, 10),
              month |-> SubSeq(datestring, 4, 5), day |-> SubSeq(datestring, 1, 2)]
        ELSE [raised |-> "ValueError", year |-> <<>>, month |-> <<>>, day |-> <<>>]

\* datetime.strftime(race_date, "%Y-%m-%d")
strftime(race_date) ==
    race_date.year \o <<"-">> \o race_date.month \o <<"-">> \o race_date.day

\* main.py parse_ctb988_response (the timestamp, copied from the "ts" field
\* into every record, is left out)
main_parse_ctb988_response(response_text) ==
    IF ~check_valid_ctb988_response(response_text)
    THEN ReturnedStr("Invalid CTB988 response")
    ELSE LET match == key_search(response_text.cookieKey)
             mode == IF match.matched THEN Mode(str_lower(match.mode)) ELSE None
             groups == Groups(response_text.pendingData)
         IN  IF IsRaise(mode) THEN Raised("ValueError")
             ELSE IF match.matched /\ parse_ctb988_datetime(match.race_date).raised # ""
             THEN Raised(parse_ctb988_datetime(match.race_date).raised)
             ELSE IF ~match.matched /\ groups # <<>> THEN Raised("TypeError")
             ELSE ReturnedList(
                     [g \in DOMAIN groups |->
                         [date |-> strftime(parse_ctb988_datetime(match.race_date)),
                          location |-> match.location,
                          race |-> groups[g].key[1], horse |-> groups[g].key[2],
                          win_discount |-> GroupDiscounts(groups[g].rows).win_discount,
                          place_discount |-> GroupDiscounts(groups[g].rows).place_discount,
                          mode |-> mode.s]])

(***************************************************************************)
(* The discount flow: a response text arrives and each parser is handed    *)
(* it once (get_ctb_data in the GraphQL flow, main in the legacy flow).    *)
(***************************************************************************)
MaxRows == 2

KeyBet ==
    <<"B", "E", "T", "_", "0", "1", "-", "0", "1", "-", "2", "0", "2", "4",
      "_", "3", "H", "_", "1">>

KeyAbc == <<"A", "B", "C">> \o SubSeq(KeyBet, 4, Len(KeyBet))

KeyBadDate ==
    <<"E", "A", "T", "_", "3", "1", "-", "0", "2">> \o SubSeq(KeyBet, 10, Len(KeyBet))

KeyNone == <<"x">>

CtbKeys ==
    {[cookieKey |-> k, keyElsewhere |-> FALSE] : k \in {KeyBet, KeyAbc, KeyBadDate, KeyNone}}
    \cup {[cookieKey |-> KeyNone, keyElsewhere |-> TRUE]}

CtbRows ==
    [race : {1}, horse : {5, 6}, win_amount : {0, 100}, place_amount : {0, 50},
     discount : {2, 3}]
    \cup [race : {2}, horse : {5}, win_amount : {0, 100}, place_amount : {0, 50},
          discount : {2, 3}]

CtbTables == UNION {[1..n -> CtbRows] : n \in 0..MaxRows}

CtbTexts ==
    {[length |-> l, cookieKey |-> k.cookieKey, keyElsewhere |-> k.keyElsewhere,
      pendingData |-> t] :
        l \in {MinLength - 1, MinLength}, k \in CtbKeys, t \in CtbTables}

CtbInit ==
    /\ ctb_response \in CtbTexts
    /\ ctb_data = NotFetched
    /\ bet_response = NotFetched
    /\ lay_response = NotFetched
    /\ pc = "ctb"
    /\ odds_map = EmptyDict
    /\ MergeIdle /\ OddsIdle /\ HkjcIdle /\ MeetingIdle /\ DisplayIdle /\ RacecardIdle /\ PollIdle

\* odds_processing.get_ctb_data: fetch_ctb_data(url, parse_ctb988_response)
GetCtbData ==
    /\ pc = "ctb"
    /\ ctb_data = NotFetched
    /\ ctb_data' = parse_ctb988_response(ctb_response)
    /\ UNCHANGED <<ctb_response, bet_response, lay_response, pc, odds_map, mergeOnly, oddsOnly,
                   hkjcVars, meetingVars, displayVars, racecardVars, pollVars>>

\* main.py main: fetch_ctb_data(url, callback_function=parse_ctb988_response)
LegacyFetchCtb ==
    /\ pc = "ctb"
    /\ bet_response = NotFetched
    /\ bet_response' = main_parse_ctb988_response(ctb_response)
    /\ UNCHANGED <<ctb_response, ctb_data, lay_response, pc, odds_map, mergeOnly, oddsOnly,
                   hkjcVars, meetingVars, displayVars, racecardVars, pollVars>>

CtbNext == GetCtbData \/ LegacyFetchCtb

SpecCtb == CtbInit /\ [][CtbNext]_vars

Fetched == {r \in {ctb_data, bet_response} : r # NotFetched}

DiscountsWhere(rows, key, amount) ==
    {rows[i].discount : i \in {j \in DOMAIN rows :
                                 RowKey(rows[j]) = key /\ rows[j][amount] > 0}}

IsMinimumOf(value, discounts) ==
    IF discounts = {} THEN value = NaN
    ELSE value.k = "int" /\ value.n \in discounts /\ \A d \in discounts : value.n <= d

Aggregated(records, rows) ==
    /\ \A i \in DOMAIN rows :
          Cardinality({g \in DOMAIN records :
                          <<records[g].race, records[g].horse>> = RowKey(rows[i])}) = 1
    /\ \A g \in DOMAIN records :
          LET key == <<records[g].race, records[g].horse>>
          IN  /\ \E i \in DOMAIN rows : RowKey(rows[i]) = key
              /\ IsMinimumOf(records[g].win_discount,
                             DiscountsWhere(rows, key, "win_amount"))
              /\ IsMinimumOf(records[g].place_discount,
                             DiscountsWhere(rows, key, "place_amount"))

ExampleRows ==
    <<[race |-> 1, horse |-> 5, win_amount |-> 100, place_amount |-> 0, discount |-> 3],
      [race |-> 1, horse |-> 5, win_amount |-> 0, place_amount |-> 50, discount |-> 2]>>

\* C6: whenever a parser (either variant) returns the records of a valid
\* response, there is exactly one record per (race, horse) of the rows, its
\* win_discount is the least discount among the group's rows with
\* win_amount > 0 and its place_discount the least among those with
\* place_amount > 0, each NaN (absent) when the group has no such row; the
\* GraphQL-flow parser returns such a list for every valid response, the
\* legacy one for every valid response whose key carries a bet/eat mode tag
\* and a calendar date.
C6_GroupMinimum ==
    /\ \A r \in Fetched :
          r.returned = "list" /\ check_valid_ctb988_response(ctb_response)
             => Aggregated(r.records, ctb_response.pendingData)
    /\ check_valid_ctb988_response(ctb_response) /\ ctb_data # NotFetched
          => ctb_data.returned = "list"
    /\ (/\ check_valid_ctb988_response(ctb_response)
        /\ bet_response # NotFetched
        /\ ctb_response.cookieKey = KeyBet)
          => bet_response.returned = "list"

C6_Witness ==
    /\ ctb_response.pendingData = ExampleRows
    /\ ctb_data.returned = "list"
    /\ bet_response.returned = "list"
    /\ Len(ctb_data.records) = 1 /\ Len(bet_response.records) = 1
    /\ \A r \in Fetched :
          /\ r.records[1].race = 1 /\ r.records[1].horse = 5
          /\ r.records[1].win_discount = PyInt(3)
          /\ r.records[1].place_discount = PyInt(2)

InvalidText(response_text) ==
    \/ response_text.length < MinLength
    \/ ~(key_search(response_text.cookieKey).matched \/ response_text.keyElsewhere)

\* C7: for a response text shorter than 140 characters or without a session
\* key, each parser returns an empty list of records and raises nothing.
C7_InvalidGivesEmpty ==
    InvalidText(ctb_response) =>
        \A r \in Fetched : r.raised = "" /\ r.returned = "list" /\ r.records = <<>>

(***************************************************************************)
(* services/race_data.py: calculate_odds and process_meeting_response      *)
(***************************************************************************)
\* bool(value)
Truthy(v) ==
    CASE v.k = "none" -> FALSE
      [] v.k = "str" -> v.s # <<>>
      [] OTHER -> v.n # 0

\* the integer nearest to a / b, ties to even
RoundDiv(a, b) ==
    LET q == a \div b
        r == a % b
    IN  IF 2 * r < b THEN q
        ELSE IF 2 * r > b THEN q + 1
        ELSE IF q % 2 = 0 THEN q ELSE q + 1

\* round(total_investment * (1 - 0.15) / runner_investment - 1, 2), in
\* hundredths; total_investment an int, runner_investment a float
calculate_odds(total_investment, runner_investment) ==
    IF runner_investment.n = 0 THEN PyFloat(0, 0)
    ELSE PyFloat(RoundDiv(total_investment.n * 85 * Pow10(runner_investment.e),
                          runner_investment.n) - 100, 2)

\* lines 57-61: the investment of the first pool of type WIN
RECURSIVE TotalInvestment(_)
TotalInvestment(poolInvs) ==
    IF poolInvs = <<>> THEN None
    ELSE IF Head(poolInvs).oddsType = "WIN" THEN Head(poolInvs).investment
    ELSE TotalInvestment(Tail(poolInvs))

\* lines 64-69: the odds computed for a runner, or the exception of float()
ComputedWinOdds(total_investment, runner_data) ==
    IF Truthy(total_investment) /\ Truthy(runner_data.winOdds)
    THEN LET runner_investment == py_float(runner_data.winOdds)
         IN  IF IsRaise(runner_investment) THEN runner_investment
             ELSE calculate_odds(total_investment, runner_investment)
    ELSE None

\* lines 71-86: Runner(...) with the validators of its fields
BuildRunner(runner_data, winOdds) ==
    [id |-> runner_data.id,
     no |-> validate_int_field(runner_data.no),
     standbyNo |-> validate_int_field(runner_data.standbyNo),
     status |-> runner_data.status,
     barrierDrawNumber |-> validate_int_field(runner_data.barrierDrawNumber),
     handicapWeight |-> validate_int_field(runner_data.handicapWeight),
     winOdds |-> validate_win_odds(winOdds),
     placeOdds |-> None]

\* lines 63-87 for the runners of one race: [raised, runners]
RECURSIVE BuildRunners(_, _)
BuildRunners(total_investment, runner_list) ==
    IF runner_list = <<>> THEN [raised |-> "", runners |-> <<>>]
    ELSE LET winOdds == ComputedWinOdds(total_investment, Head(runner_list))
             rest == BuildRunners(total_investment, Tail(runner_list))
         IN  IF IsRaise(winOdds) THEN [raised |-> winOdds.s[1], runners |-> <<>>]
             ELSE IF rest.raised # "" THEN rest
             ELSE [raised |-> "",
                   runners |-> <<BuildRunner(Head(runner_list), winOdds)>>
                                  \o rest.runners]

\* a key that the dict does not hold
Absent == [k |-> "absent", n |-> 0, e |-> 0, s |-> <<>>]

\* d.get(key, default) for the value under the key
GetOr(value, default) == IF value = Absent THEN default ELSE value

\* the datetime year-month-day hour:minute: n holds the date as yyyymmdd and
\* e the time as hhmm
PyDateTime(year, month, day, hour, minute) ==
    [k |-> "datetime", n |-> (year * 100 + month) * 100 + day,
     e |-> hour * 100 + minute, s |-> <<>>]

IsNumber(cs, lengths) == Len(cs) \in lengths /\ AllDecimal(cs)

\* the date of the pieces year, month, day, or ValueError
DateOfParts(parts, hour, minute) ==
    IF /\ Len(parts) = 3
       /\ IsNumber(parts[1], {4}) /\ IsNumber(parts[2], {1, 2})
       /\ IsNumber(parts[3], {1, 2})
       /\ DigitsValue(parts[1]) >= 1
       /\ DigitsValue(parts[2]) \in 1..12
       /\ DigitsValue(parts[3])
             \in 1..DaysInMonth(DigitsValue(parts[2]), DigitsValue(parts[1]))
    THEN PyDateTime(DigitsValue(parts[1]), DigitsValue(parts[2]),
                    DigitsValue(parts[3]), hour, minute)
    ELSE Raise("ValueError")

\* datetime.strptime(value, "%Y-%m-%d")
strptime_ymd(value) ==
    IF value.k # "str" THEN Raise("TypeError")
    ELSE DateOfParts(str_split(value.s, <<"-">>), 0, 0)

\* datetime.fromisoformat(value) for the texts YYYY-MM-DD and
\* YYYY-MM-DDTHH:MM; any other text of the model is no ISO date
fromisoformat(value) ==
    IF value.k # "str" THEN Raise("TypeError")
    ELSE IF Len(value.s) = 10 /\ value.s[5] = "-" /\ value.s[8] = "-"
              /\ IsNumber(SubSeq(value.s, 6, 7), {2})
              /\ IsNumber(SubSeq(value.s, 9, 10), {2})
    THEN DateOfParts(str_split(value.s, <<"-">>), 0, 0)
    ELSE IF Len(value.s) = 16 /\ value.s[11] = "T" /\ value.s[14] = ":"
              /\ value.s[5] = "-" /\ value.s[8] = "-"
              /\ IsNumber(SubSeq(value.s, 6, 7), {2})
              /\ IsNumber(SubSeq(value.s, 9, 10), {2})
              /\ IsNumber(SubSeq(value.s, 12, 13), {2})
              /\ IsNumber(SubSeq(value.s, 15, 16), {2})
              /\ DigitsValue(SubSeq(value.s, 12, 13)) <= 23
              /\ DigitsValue(SubSeq(value.s, 15, 16)) <= 59
    THEN DateOfParts(str_split(SubSeq(value.s, 1, 10), <<"-">>),
                     DigitsValue(SubSeq(value.s, 12, 13)),
                     DigitsValue(SubSeq(value.s, 15, 16)))
    ELSE Raise("ValueError")

\* Race.validate_date_field
race_validate_date_field(value) ==
    IF value = PyStr(<<>>) \/ value = None THEN None
    ELSE LET parsed == fromisoformat(value)
         IN  IF parsed = Raise("ValueError") THEN None ELSE parsed

\* Meeting.validate_date_field
meeting_validate_date_field(value) ==
    IF value = PyStr(<<>>) \/ value = None THEN None
    ELSE LET parsed == strptime_ymd(value)
         IN  IF parsed = Raise("ValueError") THEN None ELSE parsed

\* lines 55-104 for the races of the meeting: [raised, races]
RECURSIVE BuildRaces(_, _)
BuildRaces(race_meeting_data, race_list) ==
    IF race_list = <<>> THEN [raised |-> "", races |-> <<>>]
    ELSE LET built == BuildRunners(TotalInvestment(race_meeting_data.poolInvs),
                                   Head(race_list).runners)
             postTime == race_validate_date_field(GetOr(Head(race_list).postTime, None))
             rest == BuildRaces(race_meeting_data, Tail(race_list))
         IN  IF built.raised # "" THEN [raised |-> built.raised, races |-> <<>>]
             ELSE IF IsRaise(postTime) THEN [raised |-> postTime.s[1], races |-> <<>>]
             ELSE IF rest.raised # "" THEN rest
             ELSE [raised |-> "",
                   races |-> <<[no |-> Head(race_list).no,
                                postTime |-> postTime,
                                runners |-> built.runners]>> \o rest.races]

UnknownDate ==
    PyStr(<<"U", "n", "k", "n", "o", "w", "n", " ", "D", "a", "t", "e">>)

MeetingRaised(exc) ==
    [raised |-> exc, returned |-> "nothing", races |-> <<>>, date |-> None,
     totalNumberOfRace |-> 0]

\* process_meeting_response with the test of lines 42-44 lost
process_meeting_response_unguarded(response) ==
    IF response.raceMeetings = <<>> THEN MeetingRaised("KeyError")
    ELSE [raised |-> "", returned |-> "Meeting", races |-> <<>>, date |-> None,
          totalNumberOfRace |-> 0]

\* process_meeting_response: [raised, returned, races, date,
\* totalNumberOfRace]; returned is "dict" for the empty dict of line 44 and
\* "Meeting" for a Meeting.  Meeting.date is a datetime that may not be
\* None, so a None from its validator fails the validation of Meeting(...)
process_meeting_response(response) ==
    IF ~response.hasData
    THEN [raised |-> "", returned |-> "dict", races |-> <<>>, date |-> None,
          totalNumberOfRace |-> 0]
    ELSE IF response.raceMeetings = <<>> THEN MeetingRaised("IndexError")
    ELSE LET race_meeting_data == response.raceMeetings[1]
             meeting_date ==
                 meeting_validate_date_field(GetOr(race_meeting_data.date, UnknownDate))
             built == BuildRaces(race_meeting_data, race_meeting_data.races)
         IN  IF built.raised # "" THEN MeetingRaised(built.raised)
             ELSE IF IsRaise(meeting_date) THEN MeetingRaised(meeting_date.s[1])
             ELSE IF meeting_date = None THEN MeetingRaised("ValidationError")
             ELSE [raised |-> "", returned |-> "Meeting", races |-> built.races,
                   date |-> meeting_date,
                   totalNumberOfRace |-> race_meeting_data.totalNumberOfRace]

(***************************************************************************)
(* The meeting flow: a meeting response arrives and is processed once.     *)
(***************************************************************************)
MaxFieldRunners == 1

Blank == PyStr(<<>>)

Scratch == PyStr(SCR)

RunnerPayloads ==
    [id : {"a"}, status : {"Declared"},
     no : {PyInt(1), None, Scratch},
     standbyNo : {None, Blank},
     barrierDrawNumber : {PyInt(3), Scratch},
     handicapWeight : {PyInt(120), Blank},
     winOdds : {None, Blank, Scratch, PyStr(<<"5", "0">>), PyStr(<<"0">>)}]

PoolInvs ==
    {<<>>,
     <<[oddsType |-> "WIN", investment |-> PyInt(1000)]>>,
     <<[oddsType |-> "PLA", investment |-> PyInt(500)],
       [oddsType |-> "WIN", investment |-> PyInt(1000)]>>,
     <<[oddsType |-> "WIN", investment |-> PyInt(0)]>>}

GoodDate == PyStr(<<"2", "0", "2", "4", "-", "0", "9", "-", "0", "8">>)

GoodPostTime == PyStr(GoodDate.s \o <<"T", "1", "2", ":", "4", "5">>)

\* a parsable text, an unparsable one, the empty text, None, and no key
DateValues(good) == {good, PyStr(<<"x">>), PyStr(<<>>), None, Absent}

FieldRunner ==
    [id |-> "a", status |-> "Declared", no |-> PyInt(1), standbyNo |-> None,
     barrierDrawNumber |-> PyInt(3), handicapWeight |-> PyInt(120),
     winOdds |-> None]

\* the race numbers of a payload: in order, out of order, repeated, with a
\* gap, and a single race
RaceNoLists == {<<1, 2>>, <<2, 1>>, <<1, 1>>, <<1, 3>>, <<2>>, <<1>>}

\* payloads of one race that vary the runners and the pools, and payloads
\* that vary the race list, the reported total and the date fields
MeetingPayloads ==
    {[poolInvs |-> p, totalNumberOfRace |-> 1, date |-> GoodDate,
      races |-> <<[no |-> 1, postTime |-> GoodPostTime, runners |-> rs]>>] :
        p \in PoolInvs,
        rs \in UNION {[1..n -> RunnerPayloads] : n \in 1..MaxFieldRunners}}
    \cup
    {[poolInvs |-> <<>>, totalNumberOfRace |-> t, date |-> d,
      races |-> [i \in DOMAIN nos |->
                    [no |-> nos[i],
                     postTime |-> IF i = 1 THEN pt ELSE GoodPostTime,
                     runners |-> <<FieldRunner>>]]] :
        t \in {1, 2}, d \in DateValues(GoodDate), pt \in DateValues(GoodPostTime),
        nos \in RaceNoLists}

MeetingResponses ==
    {NoResponse, [hasData |-> TRUE, raceMeetings |-> <<>>]}
    \cup {[hasData |-> TRUE, raceMeetings |-> <<m>>] : m \in MeetingPayloads}

MeetingInit ==
    /\ meeting_response \in MeetingResponses
    /\ meeting = NoMeeting
    /\ pc = "meeting"
    /\ odds_map = EmptyDict
    /\ MergeIdle /\ OddsIdle /\ HkjcIdle /\ CtbIdle /\ DisplayIdle /\ RacecardIdle /\ PollIdle

ProcessMeeting ==
    /\ pc = "meeting"
    /\ meeting = NoMeeting
    /\ meeting' = process_meeting_response(meeting_response)
    /\ UNCHANGED <<meeting_response, pc, odds_map, mergeOnly, oddsOnly, hkjcVars,
                   ctbVars, displayVars, racecardVars, pollVars>>

MeetingNext == ProcessMeeting

SpecMeeting == MeetingInit /\ [][MeetingNext]_vars

NumericFields == {"no", "standbyNo", "barrierDrawNumber", "handicapWeight", "winOdds"}

\* C3: once a payload with a dated meeting has been processed, no error was raised
\* and a Meeting came back in which every numeric runner field whose payload
\* value is "", None or "SCR" is None.
C3_SentinelsBecomeNone ==
    (meeting # NoMeeting /\ meeting_response.hasData
        /\ meeting_response.raceMeetings # <<>>
        /\ meeting_response.raceMeetings[1].date = GoodDate) =>
        /\ meeting.raised = ""
        /\ meeting.returned = "Meeting"
        /\ LET payload == meeting_response.raceMeetings[1].races
           IN  /\ Len(meeting.races) = Len(payload)
               /\ \A i \in DOMAIN payload :
                     /\ Len(meeting.races[i].runners) = Len(payload[i].runners)
                     /\ \A j \in DOMAIN payload[i].runners, f \in NumericFields :
                           IsBlankOrScratch(payload[i].runners[j][f])
                              => meeting.races[i].runners[j][f] = None

(***************************************************************************)
(* app.py: display_race_columns                                            *)
(*                                                                         *)
(* A DataFrame is the sequence of its rows; the one made from an empty     *)
(* list has no rows and no columns.                                        *)
(***************************************************************************)
TableOf(rows) == [raised |-> "", done |-> TRUE, rows |-> rows]

TableRaised(exc) == [raised |-> exc, done |-> TRUE, rows |-> <<>>]

\* lines 105-119: the first value of the column among the rows of this race
\* and runner, "N/A" when there is none
FirstDiscount(frame, raceNo, runnerNo, column) ==
    LET found == SelectSeq(frame, LAMBDA r : r.race = raceNo /\ PyInt(r.horse) = runnerNo)
    IN  IF found = <<>> THEN PyStr(<<"N", "/", "A">>) ELSE found[1][column]

\* f"{odds:.1f}": the value in tenths, "N/A" for None
FormatOdds(odds) ==
    IF odds = None THEN PyStr(<<"N", "/", "A">>)
    ELSE PyFloat(RoundDiv(odds.n * 10, Pow10(odds.e)), 1)

\* names are strings of letters; the two tables hold the same entries in
\* app.py and main.py, and two entries of each stand for them here
JOCKEY_MAPPING ==
    (<<"B", "o", "w">> :> <<"B">>) @@ (<<"P", "u", "n">> :> <<"P">>)

TRAINER_MAPPING ==
    (<<"L", "u", "i">> :> <<"L">>) @@ (<<"M", "a", "n">> :> <<"M">>)

\* mapping.get(name, name)
DictGetOrSame(mapping, name) ==
    IF name.k = "str" /\ name.s \in DOMAIN mapping THEN PyStr(mapping[name.s])
    ELSE name

map_jockey_name(jockey_name) == DictGetOrSame(JOCKEY_MAPPING, jockey_name)

map_trainer_name(trainer_name) == DictGetOrSame(TRAINER_MAPPING, trainer_name)

\* Series.map(mapping) for one value: a value that is no key becomes NaN
series_map(mapping, value) ==
    IF value.k = "str" /\ value.s \in DOMAIN mapping THEN PyStr(mapping[value.s])
    ELSE NaN

\* lines 94-96: the runners that get a row
ShownRunners(runner_list) == SelectSeq(runner_list, LAMBDA r : r.status # "Standby")

\* display_race_columns: the rows of the table, or the TypeError of
\* formatting a post time that is None (line 86)
display_race_columns(race_arg, frame) ==
    IF race_arg.postTime = None THEN TableRaised("TypeError")
    ELSE LET shown == ShownRunners(race_arg.runners)
         IN  TableOf([j \in DOMAIN shown |->
                        [no |-> shown[j].no,
                         jockey_name |-> map_jockey_name(shown[j].jockey_name_ch),
                         trainer_name |-> map_trainer_name(shown[j].trainer_name_ch),
                         win_odds |-> FormatOdds(shown[j].winOdds),
                         win_discount |->
                            FirstDiscount(frame, race_arg.no, shown[j].no, "win_discount"),
                         place_odds |-> FormatOdds(shown[j].placeOdds),
                         place_discount |->
                            FirstDiscount(frame, race_arg.no, shown[j].no, "place_discount")]])

(***************************************************************************)
(* main.py: main, the joins of lines 499-586                               *)
(***************************************************************************)
RECURSIVE Flatten(_)
Flatten(seqs) == IF seqs = <<>> THEN <<>> ELSE Head(seqs) \o Flatten(Tail(seqs))

\* pd.merge(left, right, left_on=..., right_on=..., how="left"): every left
\* row once per right row with the same key, in the order of the right
\* frame, and once, with the right columns NaN, when no right row has it
pd_merge_left(left, right, left_on, right_on) ==
    Flatten([i \in DOMAIN left |->
                LET matches ==
                        SelectSeq(right, LAMBDA r :
                            \A k \in DOMAIN left_on : left[i][left_on[k]] = r[right_on[k]])
                IN  IF matches = <<>>
                    THEN <<left[i] @@ [c \in DOMAIN right[1] |-> NaN]>>
                    ELSE [m \in DOMAIN matches |-> left[i] @@ matches[m]]])

\* frame[[columns]]
SelectColumns(frame, columns) ==
    [i \in DOMAIN frame |-> [c \in columns |-> frame[i][c]]]

\* frame.rename({old: new}, axis=1), for the two discount columns
RenameDiscounts(frame, win_name, place_name) ==
    [i \in DOMAIN frame |->
        [c \in (DOMAIN frame[i] \ {"win_discount", "place_discount"})
                  \cup {win_name, place_name} |->
            IF c = win_name THEN frame[i].win_discount
            ELSE IF c = place_name THEN frame[i].place_discount
            ELSE frame[i][c]]]

\* pd.DataFrame(value) for what the parser returned: the rows of a list of
\* records; a string is no data for a frame (ValueError)
pd_DataFrame(parsed) ==
    IF parsed.returned = "str" THEN [raised |-> "ValueError", rows |-> <<>>]
    ELSE [raised |-> "", rows |-> parsed.records]

HkjcColumns == {"race_num", "num", "jockeyName", "trainerName", "win", "place"}

\* lines 523-524: the two name columns are mapped through the tables
MapNames(frame) ==
    [i \in DOMAIN frame |->
        [frame[i] EXCEPT !.jockeyName = series_map(JOCKEY_MAPPING, @),
                         !.trainerName = series_map(TRAINER_MAPPING, @)]]

\* main, lines 499-586 (the columns keep their first names here; the
\* discount columns are renamed as the code renames them, before the next
\* merge brings in columns of the same names): a frame without rows has no
\* key column to join on
legacy_join(racecard, race_odds, ctb_bet, ctb_lay) ==
    IF racecard = <<>> \/ race_odds = <<>> \/ ctb_bet = <<>> \/ ctb_lay = <<>>
    THEN TableRaised("KeyError")
    ELSE LET hkjc == MapNames(pd_merge_left(racecard, race_odds,
                                            <<"race_num", "num">>,
                                            <<"race_num", "num">>))
             bet == RenameDiscounts(
                        SelectColumns(
                            pd_merge_left(hkjc, ctb_bet,
                                          <<"race_num", "num">>, <<"race", "horse">>),
                            HkjcColumns \cup {"win_discount", "place_discount"}),
                        "bet_win_discount", "bet_place_discount")
         IN  TableOf(RenameDiscounts(
                        SelectColumns(
                            pd_merge_left(bet, ctb_lay,
                                          <<"race_num", "num">>, <<"race", "horse">>),
                            HkjcColumns \cup {"bet_win_discount", "bet_place_discount",
                                              "win_discount", "place_discount"}),
                        "lay_win_discount", "lay_place_discount"))

(***************************************************************************)
(* The display flows: the GraphQL flow builds the table of one race, the   *)
(* legacy flow joins the racecards with the odds and the two discount      *)
(* frames.                                                                 *)
(***************************************************************************)
MaxFrameRows == 2

Frames(rows) == UNION {[1..n -> rows] : n \in 0..MaxFrameRows}

\* a jockey and a trainer with an entry in the tables, and a pair without
Listed == [jockey_name_ch |-> PyStr(<<"P", "u", "n">>),
           trainer_name_ch |-> PyStr(<<"L", "u", "i">>)]

Unlisted == [jockey_name_ch |-> PyStr(<<"T", "e", "e">>),
             trainer_name_ch |-> PyStr(<<"Y", "i", "u">>)]

ShownRunnerKinds ==
    {[id |-> "a", no |-> PyInt(1), status |-> "Declared", winOdds |-> w,
      placeOdds |-> None] @@ Listed : w \in {None, OddsFloat}}
    \cup {[id |-> "b", no |-> PyInt(2), status |-> "Declared", winOdds |-> None,
           placeOdds |-> None] @@ Unlisted,
          [id |-> "s", no |-> None, status |-> "Standby", winOdds |-> None,
           placeOdds |-> None] @@ Listed,
          [id |-> "t", no |-> PyInt(1), status |-> "Standby", winOdds |-> None,
           placeOdds |-> None] @@ Unlisted}

TabRaces ==
    {[no |-> 1, postTime |-> t, runners |-> rs] :
        t \in {None, PyDateTime(2024, 9, 8, 12, 45)}, rs \in Frames(ShownRunnerKinds)}

DiscountRows ==
    {[race |-> 1, horse |-> 1, win_discount |-> PyInt(3), place_discount |-> NaN],
     [race |-> 1, horse |-> 1, win_discount |-> PyInt(2), place_discount |-> PyInt(2)],
     [race |-> 1, horse |-> 3, win_discount |-> NaN, place_discount |-> PyInt(4)]}

\* runner 1 has a listed jockey and trainer, runner 2 has not
RacecardRows ==
    {[race_num |-> r, num |-> n,
      jockeyName |-> IF n = 1 THEN Listed.jockey_name_ch ELSE Unlisted.jockey_name_ch,
      trainerName |-> IF n = 1 THEN Listed.trainer_name_ch ELSE Unlisted.trainer_name_ch] :
        r \in {1, 2}, n \in {1, 2}}

OddsRows ==
    {[race_num |-> 1, num |-> 1, win |-> PyFloat(32, 1), place |-> PyFloat(15, 1)],
     [race_num |-> 1, num |-> 1, win |-> PyInt(7), place |-> PyFloat(11, 1)],
     [race_num |-> 1, num |-> 3, win |-> PyInt(9), place |-> PyInt(2)]}

\* what the legacy parser can give back: the text for an invalid envelope,
\* no records, or the records of one runner
LegacyDiscounts ==
    {ReturnedStr("Invalid CTB988 response"), ReturnedList(<<>>)}
        \cup {ReturnedList(<<d>>) : d \in DiscountRows}

DisplayInit ==
    /\ \/ /\ pc = "display"
          /\ tab_race \in TabRaces
          /\ df_ctb \in Frames(DiscountRows)
          /\ df_racecard = <<>> /\ df_race_odds = <<>>
          /\ bet_response = NotFetched /\ lay_response = NotFetched
       \/ /\ pc = "legacy"
          /\ df_racecard \in Frames(RacecardRows)
          /\ df_race_odds \in Frames(OddsRows)
          /\ bet_response \in LegacyDiscounts
          /\ lay_response \in LegacyDiscounts
          /\ tab_race = NoRace /\ df_ctb = <<>>
    /\ df_ctb_bet = <<>> /\ df_ctb_lay = <<>>
    /\ ctb_response = NoText /\ ctb_data = NotFetched
    /\ table_rows = NoTable
    /\ df_bet = NoTable
    /\ odds_map = EmptyDict
    /\ MergeIdle /\ OddsIdle /\ HkjcIdle /\ MeetingIdle /\ RacecardIdle /\ PollIdle

\* app.py display_race_tabs: display_race_columns(race, df_ctb)
DisplayRace ==
    /\ pc = "display"
    /\ table_rows = NoTable
    /\ table_rows' = display_race_columns(tab_race, df_ctb)
    /\ UNCHANGED <<tab_race, df_ctb, df_racecard, df_race_odds, df_ctb_bet,
                   df_ctb_lay, df_bet, pc, odds_map, mergeOnly, oddsOnly,
                   hkjcVars, ctbVars, meetingVars, racecardVars, pollVars>>

\* main.py main, lines 499-586: the two discount frames are built (lines
\* 531 and 538) and the four frames are joined
LegacyJoin ==
    /\ pc = "legacy"
    /\ df_bet = NoTable
    /\ LET bet == pd_DataFrame(bet_response)
           lay == pd_DataFrame(lay_response)
       IN  IF df_racecard = <<>> \/ df_race_odds = <<>>
           THEN /\ df_bet' = legacy_join(df_racecard, df_race_odds, <<>>, <<>>)
                /\ UNCHANGED <<df_ctb_bet, df_ctb_lay>>
           ELSE IF bet.raised # ""
           THEN /\ df_bet' = TableRaised(bet.raised)
                /\ UNCHANGED <<df_ctb_bet, df_ctb_lay>>
           ELSE IF lay.raised # ""
           THEN /\ df_bet' = TableRaised(lay.raised)
                /\ df_ctb_bet' = bet.rows
                /\ UNCHANGED df_ctb_lay
           ELSE /\ df_ctb_bet' = bet.rows
                /\ df_ctb_lay' = lay.rows
                /\ df_bet' = legacy_join(df_racecard, df_race_odds, bet.rows, lay.rows)
    /\ UNCHANGED <<tab_race, df_ctb, table_rows, df_racecard, df_race_odds,
                   pc, odds_map, mergeOnly, oddsOnly,
                   hkjcVars, ctbVars, meetingVars, racecardVars, pollVars>>

DisplayNext == DisplayRace \/ LegacyJoin

SpecDisplay == DisplayInit /\ [][DisplayNext]_vars

NonStandby(runner_list) == {j \in DOMAIN runner_list : runner_list[j].status # "Standby"}

RowsOfRace(rows, raceNo) == {i \in DOMAIN rows : rows[i].race_num = raceNo}

\* C2: a table built for a race has exactly one row per runner of the race
\* that is not a standby, and the legacy join yields, whatever the odds and
\* discount frames hold, a table with exactly one row per racecard row of
\* every race.
C2_OneRowPerRunner ==
    /\ (table_rows # NoTable /\ table_rows.raised = "") =>
          Len(table_rows.rows) = Cardinality(NonStandby(tab_race.runners))
    /\ df_bet # NoTable =>
          /\ df_bet.raised = ""
          /\ \A raceNo \in {1, 2} :
                Cardinality(RowsOfRace(df_bet.rows, raceNo))
                   = Cardinality(RowsOfRace(df_racecard, raceNo))

\* the abbreviation of a name with an entry, the name itself without one
Abbreviated(mapping, name) ==
    IF name.s \in DOMAIN mapping THEN PyStr(mapping[name.s]) ELSE name

\* C12: every row of the table of display_race_columns and every row of the
\* legacy join carries, for its runner's jockey and trainer, the table's
\* abbreviation when the name has an entry and the name itself when not.
C12_UnlistedNamesKept ==
    /\ (table_rows # NoTable /\ table_rows.raised = "") =>
          LET shown == ShownRunners(tab_race.runners)
          IN  \A j \in DOMAIN table_rows.rows :
                 /\ table_rows.rows[j].jockey_name
                       = Abbreviated(JOCKEY_MAPPING, shown[j].jockey_name_ch)
                 /\ table_rows.rows[j].trainer_name
                       = Abbreviated(TRAINER_MAPPING, shown[j].trainer_name_ch)
    /\ (df_bet # NoTable /\ df_bet.raised = "") =>
          \A i \in DOMAIN df_bet.rows :
             \E c \in DOMAIN df_racecard :
                /\ df_racecard[c].num = df_bet.rows[i].num
                /\ df_bet.rows[i].jockeyName
                      = Abbreviated(JOCKEY_MAPPING, df_racecard[c].jockeyName)
                /\ df_bet.rows[i].trainerName
                      = Abbreviated(TRAINER_MAPPING, df_racecard[c].trainerName)

RaceNos(race_list) == [i \in DOMAIN race_list |-> race_list[i].no]

\* C13: a Meeting that process_meeting_response returns has its races
\* numbered 1, 2, ..., N in this order, N being its totalNumberOfRace.
C13_RacesNumberedInOrder ==
    meeting.returned = "Meeting" =>
        RaceNos(meeting.races) = [i \in 1..meeting.totalNumberOfRace |-> i]

\* C16: a response with a data key and an empty raceMeetings list is
\* processed without an error and gives no meeting.
C16_NoMeetingNoError ==
    (meeting # NoMeeting /\ meeting_response.hasData
        /\ meeting_response.raceMeetings = <<>>) =>
        meeting.raised = "" /\ meeting.returned # "Meeting"

\* C18: once a payload with a meeting has been processed, no error was
\* raised and a Meeting came back whose date is the parsed date when the
\* payload's date is a well-formed text and None otherwise, and likewise the
\* postTime of every race.
C18_BadDatesBecomeNone ==
    (meeting # NoMeeting /\ meeting_response.hasData
        /\ meeting_response.raceMeetings # <<>>
        /\ \A j \in DOMAIN meeting_response.raceMeetings[1].races[1].runners :
              meeting_response.raceMeetings[1].races[1].runners[j].winOdds # Scratch) =>
        LET payload == meeting_response.raceMeetings[1]
        IN  /\ meeting.raised = ""
            /\ meeting.returned = "Meeting"
            /\ meeting.date = IF payload.date = GoodDate
                              THEN PyDateTime(2024, 9, 8, 0, 0) ELSE None
            /\ \A i \in DOMAIN payload.races :
                  meeting.races[i].postTime
                     = IF payload.races[i].postTime = GoodPostTime
                       THEN PyDateTime(2024, 9, 8, 12, 45) ELSE None

(***************************************************************************)
(* main.py get_all_racecard_today: one racecard per race, None for the     *)
(* races already run.  get_racecard_today either returns the entries of    *)
(* the card, or raises IndexError when the page has no runner script       *)
(* (line 254), or raises something else (the fetch itself failing).        *)
(***************************************************************************)
MaxRaces == 3

MaxAttempts == 4

RetryLimit == 3

RacecardLists == {<<>>, <<1>>}

FetchOutcomes ==
    {[raised |-> "", card |-> c] : c \in RacecardLists}
        \cup {[raised |-> e, card |-> <<>>] : e \in {"IndexError", "ConnectionError"}}

RacecardInit ==
    /\ pc = "for"
    /\ total_race \in 1..MaxRaces
    /\ total_ran_race \in 0..total_race
    /\ racecards = <<>>
    /\ card_no = 1
    /\ retries = 0
    /\ attempts = 0
    /\ PollIdle
    /\ odds_map = EmptyDict
    /\ MergeIdle /\ OddsIdle /\ HkjcIdle /\ CtbIdle /\ MeetingIdle /\ DisplayIdle

\* lines 277-279: a race already run gets None
SkipRanRace ==
    /\ pc = "for"
    /\ card_no <= total_race
    /\ card_no <= total_ran_race
    /\ racecards' = Append(racecards, None)
    /\ card_no' = card_no + 1
    /\ UNCHANGED <<total_ran_race, total_race, retries, attempts, pc, odds_map,
                   mergeOnly, oddsOnly, hkjcVars, ctbVars, meetingVars, displayVars, pollVars>>

\* lines 281-283: the race is still to run, enter the while loop
EnterRetryLoop ==
    /\ pc = "for"
    /\ card_no <= total_race
    /\ card_no > total_ran_race
    /\ attempts' = 0
    /\ pc' = "while"
    /\ UNCHANGED <<total_ran_race, total_race, racecards, card_no, retries, odds_map,
                   mergeOnly, oddsOnly, hkjcVars, ctbVars, meetingVars, displayVars, pollVars>>

\* lines 284-293: one pass of the while loop.  The counter is set to 0 at
\* the top of every pass, then tested against the limit, then incremented.
TryRacecard(outcome) ==
    /\ pc = "while"
    /\ attempts < MaxAttempts
    /\ LET reset == 0
       IN  IF reset < RetryLimit
           THEN /\ retries' = reset + 1
                /\ attempts' = attempts + 1
                /\ IF outcome.raised = ""
                   THEN /\ racecards' = Append(racecards, outcome.card)
                        /\ card_no' = card_no + 1
                        /\ pc' = "for"
                   ELSE /\ UNCHANGED <<racecards, card_no>>
                        /\ pc' = IF outcome.raised = "IndexError"
                                 THEN "while"
                                 ELSE "raised"
           ELSE /\ retries' = reset
                /\ UNCHANGED <<attempts, racecards, card_no, pc>>
    /\ UNCHANGED <<total_ran_race, total_race, odds_map,
                   mergeOnly, oddsOnly, hkjcVars, ctbVars, meetingVars, displayVars, pollVars>>

\* line 295: the for loop is exhausted
ReturnRacecards ==
    /\ pc = "for"
    /\ card_no > total_race
    /\ pc' = "returned"
    /\ UNCHANGED <<odds_map, mergeOnly, oddsOnly, hkjcVars, ctbVars, meetingVars,
                   displayVars, racecardVars, pollVars>>

RacecardNext ==
    \/ SkipRanRace
    \/ EnterRetryLoop
    \/ \E outcome \in FetchOutcomes : TryRacecard(outcome)
    \/ ReturnRacecards

SpecRacecard == RacecardInit /\ [][RacecardNext]_vars

\* C15: get_racecard_today is called at most three times for one race.
C15_AtMostThreeAttempts == attempts <= RetryLimit

\* the discount cells of a row are absent
NoDiscounts(row) ==
    /\ row.win_discount = PyStr(<<"N", "/", "A">>)
    /\ row.place_discount = PyStr(<<"N", "/", "A">>)

\* C19: with no discount records, the table of a race that has a post time
\* is built with a row for every runner that is not a standby, its
\* discounts absent; and when a legacy parser gave back no records (the
\* text of an invalid envelope or an empty list) while the racecard and
\* odds frames have rows, the legacy join is built with a row for every
\* racecard row.
C19_DisplayWithoutSupplement ==
    /\ (table_rows.done /\ df_ctb = <<>> /\ tab_race.postTime # None) =>
          /\ table_rows.raised = ""
          /\ Len(table_rows.rows) = Cardinality(NonStandby(tab_race.runners))
          /\ \A j \in DOMAIN table_rows.rows : NoDiscounts(table_rows.rows[j])
    /\ (/\ df_bet.done
        /\ df_racecard # <<>> /\ df_race_odds # <<>>
        /\ \/ bet_response.returned = "str" \/ bet_response.records = <<>>
           \/ lay_response.returned = "str" \/ lay_response.records = <<>>) =>
          /\ df_bet.raised = ""
          /\ Len(df_bet.rows) >= Len(df_racecard)

(***************************************************************************)
(* The functions of app.main on responses with and without data:           *)
(* process_meeting_response is handed a meeting response (line 185), and   *)
(* the loop of lines 190-198 fetches an odds response for a race, hands it *)
(* to process_odds_response and merges the map it returns.                 *)
(***************************************************************************)
WinPool(comb) ==
    [oddsType |-> "WIN", oddsNodes |-> <<[combString |-> comb, oddsValue |-> OddsFloat]>>]

\* no data, data without a meeting, data without a pool, WIN odds for
\* runner 1 or for runner 2, and WIN odds under a combination code
LoopResponses ==
    {NoResponse,
     [hasData |-> TRUE, raceMeetings |-> <<>>],
     [hasData |-> TRUE, raceMeetings |-> << <<>> >>],
     [hasData |-> TRUE, raceMeetings |-> << <<WinPool(<<"1">>)>> >>],
     [hasData |-> TRUE, raceMeetings |-> << <<WinPool(<<"2">>)>> >>],
     [hasData |-> TRUE, raceMeetings |-> << <<WinPool(<<"1", ",", "2">>)>> >>]}

LoopRaces ==
    <<[no |-> 1, runners |-> <<NewRunner("a", PyInt(1)), NewRunner("b", PyInt(2))>>],
      [no |-> 2, runners |-> <<NewRunner("c", PyInt(1))>>]>>

NoDataInit ==
    /\ \/ /\ pc = "meeting"
          /\ meeting_response \in MeetingResponses
          /\ races = <<>>
       \/ /\ pc = "loop"
          /\ meeting_response = NoResponse
          /\ races = LoopRaces
    /\ meeting = NoMeeting
    /\ race_no = 0
    /\ odds_map = EmptyDict
    /\ OddsIdle /\ HkjcIdle /\ CtbIdle /\ DisplayIdle /\ RacecardIdle /\ PollIdle

\* app.main lines 191-197: the odds of one race are fetched and processed
FetchOddsResponse(resp, target) ==
    /\ pc = "loop"
    /\ odds_response' = resp
    /\ LET r == process_odds_response(resp)
       IN  IF r.raised
           THEN pc' = "raised" /\ UNCHANGED <<odds_map, race_no>>
           ELSE odds_map' = r.map /\ race_no' = target /\ pc' = "fetched"
    /\ UNCHANGED <<races, hkjcVars, ctbVars, meetingVars, displayVars, racecardVars, pollVars>>

NoDataNext ==
    \/ ProcessMeeting
    \/ \E resp \in LoopResponses, target \in RaceNoArgs : FetchOddsResponse(resp, target)
    \/ Merge
    \/ NextRace

SpecNoData == NoDataInit /\ [][NoDataNext]_vars

\* C17: a meeting response without data gives the empty dict and no
\* exception; an odds response without data gives the empty odds map and no
\* exception; and the merge of that map leaves every race as it was.
C17_NoDataIsSoft ==
    /\ []((meeting # NoMeeting /\ ~meeting_response.hasData) =>
             (meeting.raised = "" /\ meeting.returned = "dict"))
    /\ []((pc \in {"fetched", "merged", "raised"} /\ ~odds_response.hasData) =>
             (pc # "raised" /\ odds_map = EmptyDict))
    /\ [][(pc = "fetched" /\ ~odds_response.hasData) => races' = races]_vars

\* a response without data has been processed and its map merged into
\* races that hold odds from an earlier merge
C17_Witness ==
    /\ pc = "merged"
    /\ ~odds_response.hasData
    /\ odds_map = EmptyDict
    /\ \E i \in DOMAIN races : races[i].no = race_no
    /\ \E i \in DOMAIN races : \E j \in DOMAIN races[i].runners :
          races[i].no = race_no /\ races[i].runners[j].winOdds = OddsFloat

\* the runner numbers of the positions of segment k that give a record, in
\* the order of the positions
KeptRunners(k) ==
    LET paired == SubSeq(WinMatches(k), 1, Cardinality(Positions(k)))
        kept == SelectSeq(paired, LAMBDA w : w.odds # SCR)
    IN  [j \in DOMAIN kept |-> int_of_str(kept[j].horse).n]

\* C20: in the list a parse returns, the race numbers never decrease, every
\* race number is the number of a segment of the feed, and the records
\* tagged k are the records of the positions of the k-th segment, in the
\* order of the positions.
C20_RecordsInFeedOrder ==
    (pc = "parsed" /\ all_odds.raised = "") =>
        /\ \A j \in DOMAIN all_odds.records : \A j2 \in DOMAIN all_odds.records :
              j < j2 => all_odds.records[j].race_num <= all_odds.records[j2].race_num
        /\ \A j \in DOMAIN all_odds.records :
              all_odds.records[j].race_num \in DOMAIN FeedRaces
        /\ \A k \in DOMAIN FeedRaces :
              [j \in DOMAIN RecordsOfRace(k) |-> RecordsOfRace(k)[j].num]
                 = KeptRunners(k)

\* a feed of two races whose first race lists runner 2 before runner 1
C20_Witness ==
    /\ pc = "parsed"
    /\ all_odds.raised = ""
    /\ Len(all_odds.records) = 3
    /\ all_odds.records[1].num = 2 /\ all_odds.records[1].race_num = 1
    /\ all_odds.records[2].num = 1 /\ all_odds.records[2].race_num = 1
    /\ all_odds.records[3].race_num = 2

(***************************************************************************)
(* main.py main, lines 487-497: the racecards of the races still to run    *)
(* are fetched, then the odds of the races total_ran_race + 1 ..           *)
(* total_race in one request.  The feed answers with one segment for each  *)
(* requested race, in the order of the races, and a segment does not name  *)
(* its race.                                                               *)
(***************************************************************************)
\* the segments 1=3.2=0#1=1.5=1 and 2=7=1#2=1.1=0
SegmentTexts ==
    LaterRaces
        \cup {<<"2", "=", "7", "=", "1", "#", "2", "=", "1", ".", "1", "=", "0">>}

RECURSIVE JoinSegments(_)
JoinSegments(segments) ==
    IF segments = <<>> THEN <<>>
    ELSE RaceSeparator \o Head(segments) \o JoinSegments(Tail(segments))

\* the feeds that answer a request for the races start_race .. end_race
FeedsFor(start_race, end_race) ==
    {JoinSegments(segments) : segments \in [1..(end_race - start_race + 1) -> SegmentTexts]}

LegacyOddsInit ==
    /\ pc = "for"
    /\ total_race \in 1..MaxRaces
    /\ total_ran_race \in 0..total_race
    /\ results \in FeedsFor(total_ran_race + 1, total_race)
    /\ all_odds = [raised |-> "", records |-> <<>>]
    /\ racecards = <<>>
    /\ card_no = 1
    /\ retries = 0
    /\ attempts = 0
    /\ PollIdle
    /\ odds_map = EmptyDict
    /\ MergeIdle /\ OddsIdle /\ CtbIdle /\ MeetingIdle /\ DisplayIdle

\* main.py main lines 495-497: get_race_odds_today(venue, total_ran_race + 1,
\* total_race), which hands the text of the answer to process_hkjc_response
GetRaceOdds ==
    /\ pc = "returned"
    /\ all_odds' = process_hkjc_response(results)
    /\ pc' = "odds"
    /\ UNCHANGED <<results, odds_map, mergeOnly, oddsOnly, ctbVars, meetingVars,
                   displayVars, racecardVars, pollVars>>

LegacyOddsNext ==
    \/ SkipRanRace
    \/ EnterRetryLoop
    \/ \E outcome \in FetchOutcomes : TryRacecard(outcome)
    \/ ReturnRacecards
    \/ GetRaceOdds

SpecLegacyOdds == LegacyOddsInit /\ [][LegacyOddsNext]_vars

\* the race a racecard of the list is for: get_racecard_today(race_no=i)
\* is appended at position i and tags its entries with race_num i
RacecardRaces == {i \in DOMAIN racecards : racecards[i] # None}

\* C22: the odds records of the k-th segment of the answer are tagged with
\* the k-th requested race, total_ran_race + k, so that every odds record
\* carries the number of a race whose racecard was fetched.
C22_OddsTaggedWithRequestedRace ==
    (pc = "odds" /\ all_odds.raised = "") =>
        /\ \A k \in DOMAIN FeedRaces :
              [j \in DOMAIN RecordsOfRace(total_ran_race + k) |->
                  RecordsOfRace(total_ran_race + k)[j].num] = KeptRunners(k)
        /\ \A j \in DOMAIN all_odds.records :
              all_odds.records[j].race_num \in RacecardRaces

(***************************************************************************)
(* main.py get_meeting_today: the meeting page is requested until a        *)
(* response holds the meeting marker; that response is cleaned and its     *)
(* date compared with today.  A response is [text, mtg_date]: its          *)
(* characters, and what clean_meeting_response finds for mtg_date in it    *)
(* ("today", "other", or "missing" when it holds no such variable).        *)
(***************************************************************************)
MaxPolls == 5

Marker == <<"m", "t", "g", "D", "a", "t", "e">>

\* sub in text
Contains(text, sub) ==
    \E p \in 1..(Len(text) - Len(sub) + 1) : SubSeq(text, p, p + Len(sub) - 1) = sub

\* a test for the first three characters of the marker only
check_for_races_short(text) == Contains(text, SubSeq(Marker, 1, 3))

check_for_races(text) == Contains(text, Marker)

\* clean_meeting_response: [raised, mtg_date]; the lookup of mtg_date on
\* line 201 raises KeyError when no line of the text assigned it
clean_meeting_response(response) ==
    IF response.mtg_date = "missing" THEN [raised |-> "KeyError", mtg_date |-> ""]
    ELSE [raised |-> "", mtg_date |-> response.mtg_date]

\* the empty text, a cut marker, the marker in lower case, other text
WaitingTexts ==
    {<<>>, SubSeq(Marker, 1, 6), <<"m", "t", "g", "d", "a", "t", "e">>, <<"x", "y">>}

\* the marker alone, after other text, and before other text
ReadyTexts == {Marker, <<"x", " ">> \o Marker, Marker \o <<"=">>}

PollResponses ==
    {[text |-> t, mtg_date |-> "missing"] : t \in WaitingTexts}
        \cup [text : ReadyTexts, mtg_date : {"today", "other", "missing"}]

PollInit ==
    /\ pc = "poll"
    /\ poll_count = 0
    /\ poll_response = NoPoll
    /\ meeting_today = Polling
    /\ odds_map = EmptyDict
    /\ MergeIdle /\ OddsIdle /\ HkjcIdle /\ CtbIdle /\ MeetingIdle /\ DisplayIdle
    /\ RacecardIdle

\* lines 218-227: one pass of the while loop with the response the request
\* got; responses without the marker stop arriving after MaxPolls requests
PollMeeting(response) ==
    /\ pc = "poll"
    /\ check_for_races(response.text) \/ poll_count < MaxPolls
    /\ poll_count' = poll_count + 1
    /\ poll_response' = response
    /\ pc' = IF check_for_races(response.text) THEN "clean" ELSE "poll"
    /\ UNCHANGED <<meeting_today, odds_map, mergeOnly, oddsOnly, hkjcVars, ctbVars,
                   meetingVars, displayVars, racecardVars>>

\* lines 218-222 when the request itself fails: the error leaves the function
PollFails ==
    /\ pc = "poll"
    /\ poll_count < MaxPolls
    /\ poll_count' = poll_count + 1
    /\ meeting_today' = [raised |-> "ConnectError", returned |-> "nothing"]
    /\ pc' = "raised"
    /\ UNCHANGED <<poll_response, odds_map, mergeOnly, oddsOnly, hkjcVars, ctbVars,
                   meetingVars, displayVars, racecardVars>>

\* lines 229-235: the response is cleaned and returned, or None is returned
\* when its date is not today
CleanMeeting ==
    /\ pc = "clean"
    /\ LET cleaned == clean_meeting_response(poll_response)
       IN  IF cleaned.raised # ""
           THEN /\ meeting_today' = [raised |-> cleaned.raised, returned |-> "nothing"]
                /\ pc' = "raised"
           ELSE /\ meeting_today' =
                      [raised |-> "",
                       returned |-> IF cleaned.mtg_date # "today" THEN "None"
                                    ELSE "response"]
                /\ pc' = "returned"
    /\ UNCHANGED <<poll_count, poll_response, odds_map, mergeOnly, oddsOnly, hkjcVars,
                   ctbVars, meetingVars, displayVars, racecardVars>>

PollNext ==
    \/ \E response \in PollResponses : PollMeeting(response)
    \/ PollFails
    \/ CleanMeeting

SpecPoll == PollInit /\ [][PollNext]_vars

\* the loop keeps running, and so does the code after it
SpecPollLive == SpecPoll /\ WF_vars(PollNext)

\* the characters m, t, g, D, a, t, e occur in a row in the response
HoldsMarker(response) ==
    \E p \in 1..Len(response.text) :
        /\ p + 6 <= Len(response.text)
        /\ \A q \in 0..6 : response.text[p + q] = Marker[q + 1]

\* C21: while no response has held the marker the function is still at its
\* loop, has returned nothing and parsed nothing; a response without the
\* marker is followed by the loop, one more request counted; the first
\* response with the marker ends the loop and no request follows it; and
\* when responses without the marker stop arriving, the function ends.
C21_PollsUntilMarker ==
    /\ [](/\ (pc = "poll" /\ poll_count > 0) => ~HoldsMarker(poll_response)
          /\ pc \in {"clean", "returned"} => HoldsMarker(poll_response)
          /\ meeting_today.returned # "nothing" => HoldsMarker(poll_response)
          /\ pc \in {"poll", "clean"} => meeting_today = Polling)
    /\ [][(pc = "poll" /\ pc' # "raised") =>
             /\ poll_count' = poll_count + 1
             /\ pc' = IF HoldsMarker(poll_response') THEN "clean" ELSE "poll"]_vars
    /\ [][pc # "poll" => (poll_count' = poll_count /\ poll_response' = poll_response)]_vars
    /\ <>(pc \in {"returned", "raised"})

\* the function returned the response that followed more than RetryLimit
\* responses without the marker
C21_Witness ==
    /\ pc = "returned"
    /\ meeting_today.returned = "response"
    /\ poll_count = MaxPolls + 1
    /\ HoldsMarker(poll_response)

Unique(keys) == \A i \in DOMAIN keys, j \in DOMAIN keys : keys[i] = keys[j] => i = j

\* C14: the records a discount parser returned and the records
\* process_hkjc_response returned hold no two entries for the same race and
\* runner.
C14_OneEntryPerRunner ==
    /\ \A r \in Fetched :
          Unique([g \in DOMAIN r.records |-> <<r.records[g].race, r.records[g].horse>>])
    /\ Unique([g \in DOMAIN all_odds.records |->
                  <<all_odds.records[g].race_num, all_odds.records[g].num>>])

====
